---------------------------- MODULE Spec2Model ----------------------------
(***************************************************************************)
(* Mr. Conductor: Timing Engine (timing_engine.py), MIDI Clock Generator   *)
(* (midi_clock.py) and MIDI Router (midi_router.py).                       *)
(*                                                                         *)
(* Each component is a specification of its own over its own variables:    *)
(*   SpecTiming    TimingEngine: control calls against the update thread   *)
(*   SpecClock     MIDIClockGenerator: control calls against the loop      *)
(*   SpecRouter    MIDIRouter: control calls against the routing worker    *)
(*   SpecTransform MIDITransform.transform as a pure function              *)
(*   SpecBytes     MIDIMessage.to_bytes as a pure function                 *)
(* No method of the three classes takes a lock, so a method of a control   *)
(* thread and the body of a background loop interleave between source      *)
(* lines; the position of each thread is part of the state.                *)
(***************************************************************************)
EXTENDS Integers, Sequences, FiniteSets, TLC

(***************************************************************************)
(* Bounds of the model.                                                    *)
(***************************************************************************)
\* time.time() runs from 0 to MaxTime seconds in the timing engine
MaxTime == 3

(***************************************************************************)
(* Small helpers.                                                          *)
(***************************************************************************)
Max(a, b) == IF a >= b THEN a ELSE b
Min(a, b) == IF a <= b THEN a ELSE b

(***************************************************************************)
(*                            TIMING ENGINE                                *)
(*                                                                         *)
(* Units: te_time, te_start_time and te_current_time are seconds.          *)
(* te_beat_position is kept in sixtieths of a beat, so that                *)
(*   beat_position = elapsed_time * (bpm / 60.0)                           *)
(* is the integer elapsed_time * bpm, with no rounding.                    *)
(***************************************************************************)
VARIABLES
    te_time,            \* time.time()
    te_running,         \* TimingEngine.running
    te_bpm,             \* state.bpm
    te_is_playing,      \* state.is_playing
    te_beat_position,   \* state.beat_position, in 1/60 beat
    te_start_time,      \* state.start_time
    te_last_beat_time,  \* state.last_beat_time
    te_upd,             \* update thread: "dead", or the line it is about to run
    te_current_time,    \* local current_time of _update_timing
    te_ctl,             \* control thread: "idle", or the line it is about to run
    te_last,            \* history: the step taken last, [op, arg, pre]
    te_cycle_prev,      \* history: beat_position written by the previous
                        \* cycle since start_playback returned, -1 when
                        \* there is none or the engine is stopped
    te_was_playing      \* history: is_playing when the start_playback in
                        \* progress, or the last one, was called

te_vars == << te_time, te_running, te_bpm, te_is_playing, te_beat_position,
              te_start_time, te_last_beat_time, te_upd, te_current_time,
              te_ctl, te_last, te_cycle_prev, te_was_playing >>

\* TimingState defaults
DefaultBpm == 120
\* set_bpm's range
BpmMin == 60
BpmMax == 200

\* arguments set_bpm is called with
BpmInputs == {0, 59, 60, 120, 200, 201, 250}

TE_Last(op, arg, pre) == [op |-> op, arg |-> arg, pre |-> pre]

TE_Init ==
    /\ te_time = 0
    /\ te_running = FALSE
    /\ te_bpm = DefaultBpm
    /\ te_is_playing = FALSE
    /\ te_beat_position = 0
    /\ te_start_time = 0
    /\ te_last_beat_time = 0
    /\ te_upd = "dead"
    /\ te_current_time = 0
    /\ te_ctl = "idle"
    /\ te_last = TE_Last("init", 0, 0)
    /\ te_cycle_prev = -1
    /\ te_was_playing = FALSE

\* time passes
TE_Tick ==
    /\ te_time < MaxTime
    /\ te_time' = te_time + 1
    /\ UNCHANGED te_was_playing
    /\ UNCHANGED << te_running, te_bpm, te_is_playing, te_beat_position,
                    te_start_time, te_last_beat_time, te_upd, te_current_time,
                    te_ctl, te_last, te_cycle_prev >>

\* if 60.0 <= bpm <= 200.0
SetBpmAccepts_NoUpper(bpm) == BpmMin <= bpm
SetBpmAccepts_OnlyStopped(bpm) ==
    BpmMin <= bpm /\ bpm <= BpmMax /\ ~te_is_playing
SetBpmAccepts(bpm) == BpmMin <= bpm /\ bpm <= BpmMax

\* TimingEngine.set_bpm
TE_set_bpm(bpm) ==
    /\ te_ctl = "idle"
    /\ te_bpm' = IF SetBpmAccepts(bpm) THEN bpm ELSE te_bpm
    /\ te_last' = TE_Last("set_bpm", bpm, te_bpm)
    /\ UNCHANGED te_was_playing
    /\ UNCHANGED << te_time, te_running, te_is_playing, te_beat_position,
                    te_start_time, te_last_beat_time, te_upd, te_current_time,
                    te_ctl, te_cycle_prev >>

\* TimingEngine.start_playback, line 120: is_playing = True
TE_start_playback_120 ==
    /\ te_ctl = "idle"
    /\ te_is_playing' = TRUE
    /\ te_ctl' = "l121"
    /\ te_last' = TE_Last("start_playback_120", 0, 0)
    /\ te_was_playing' = te_is_playing
    /\ UNCHANGED << te_time, te_running, te_bpm, te_beat_position,
                    te_start_time, te_last_beat_time, te_upd, te_current_time,
                    te_cycle_prev >>

\* TimingEngine.start_playback, lines 121-123: start_time, last_beat_time, return
TE_start_playback_121 ==
    /\ te_ctl = "l121"
    /\ te_start_time' = te_time
    /\ te_last_beat_time' = te_time
    /\ te_ctl' = "idle"
    /\ te_cycle_prev' = -1
    /\ te_last' = TE_Last("start_playback", 0, 0)
    /\ UNCHANGED te_was_playing
    /\ UNCHANGED << te_time, te_running, te_bpm, te_is_playing,
                    te_beat_position, te_upd, te_current_time >>

\* TimingEngine.stop_playback
TE_stop_playback ==
    /\ te_ctl = "idle"
    /\ te_is_playing' = FALSE
    /\ te_cycle_prev' = -1
    /\ te_last' = TE_Last("stop_playback", 0, 0)
    /\ UNCHANGED te_was_playing
    /\ UNCHANGED << te_time, te_running, te_bpm, te_beat_position,
                    te_start_time, te_last_beat_time, te_upd, te_current_time,
                    te_ctl >>

\* TimingEngine.start: the update thread is created once
TE_start ==
    /\ te_ctl = "idle"
    /\ ~te_running
    /\ te_running' = TRUE
    /\ te_upd' = "l169"
    /\ te_last' = TE_Last("start", 0, 0)
    /\ UNCHANGED te_was_playing
    /\ UNCHANGED << te_time, te_bpm, te_is_playing, te_beat_position,
                    te_start_time, te_last_beat_time, te_current_time, te_ctl,
                    te_cycle_prev >>

\* _timing_loop, line 169: while self.running
TE_loop_169 ==
    /\ te_upd = "l169"
    /\ te_upd' = IF te_running THEN "l140" ELSE "dead"
    /\ te_last' = TE_Last("update", 0, 0)
    /\ UNCHANGED te_was_playing
    /\ UNCHANGED << te_time, te_running, te_bpm, te_is_playing,
                    te_beat_position, te_start_time, te_last_beat_time,
                    te_current_time, te_ctl, te_cycle_prev >>

\* _update_timing, line 140: current_time = time.time()
TE_update_140 ==
    /\ te_upd = "l140"
    /\ te_current_time' = te_time
    /\ te_upd' = "l142"
    /\ te_last' = TE_Last("update", 0, 0)
    /\ UNCHANGED te_was_playing
    /\ UNCHANGED << te_time, te_running, te_bpm, te_is_playing,
                    te_beat_position, te_start_time, te_last_beat_time, te_ctl,
                    te_cycle_prev >>

\* _update_timing, line 142: if self.state.is_playing
TE_update_142 ==
    /\ te_upd = "l142"
    /\ te_upd' = IF te_is_playing THEN "l144" ELSE "l154"
    /\ te_last' = TE_Last("update", 0, 0)
    /\ UNCHANGED te_was_playing
    /\ UNCHANGED << te_time, te_running, te_bpm, te_is_playing,
                    te_beat_position, te_start_time, te_last_beat_time,
                    te_current_time, te_ctl, te_cycle_prev >>

\* elapsed_time * beats_per_second, in 1/60 beat
BeatPosition(current_time, start_time, bpm) == (current_time - start_time) * bpm

\* _update_timing, lines 144-146: beat_position is written
TE_update_144 ==
    /\ te_upd = "l144"
    /\ te_beat_position' = BeatPosition(te_current_time, te_start_time, te_bpm)
    /\ te_cycle_prev' = IF te_is_playing THEN te_beat_position' ELSE -1
    /\ te_upd' = "l154"
    /\ te_last' = TE_Last("update_write", 0, te_cycle_prev)
    /\ UNCHANGED te_was_playing
    /\ UNCHANGED << te_time, te_running, te_bpm, te_is_playing, te_start_time,
                    te_last_beat_time, te_current_time, te_ctl >>

\* _update_timing, lines 154-163, and the sleep of line 172: the broadcast
\* and the callbacks read the state and write none of it
TE_update_154 ==
    /\ te_upd = "l154"
    /\ te_upd' = "l169"
    /\ te_last' = TE_Last("update", 0, 0)
    /\ UNCHANGED te_was_playing
    /\ UNCHANGED << te_time, te_running, te_bpm, te_is_playing,
                    te_beat_position, te_start_time, te_last_beat_time,
                    te_current_time, te_ctl, te_cycle_prev >>

(***************************************************************************)
(*                         MIDI CLOCK GENERATOR                            *)
(*                                                                         *)
(* Units: cg_time, cg_last_clock_time and cg_loop_time are milliseconds.   *)
(* clock_interval is the exact fraction n/d of a second that the float     *)
(* arithmetic of _update_clock_interval approximates.                      *)
(***************************************************************************)
VARIABLES
    cg_time,             \* time.time()
    cg_running,          \* MIDIClockGenerator.running
    cg_devices,          \* self.devices: the port ids, in list order
    cg_is_playing,       \* self.is_playing
    cg_current_bpm,      \* self.current_bpm
    cg_clock_interval,   \* self.clock_interval, [n, d] for n/d seconds
    cg_last_clock_time,  \* self.last_clock_time
    cg_clock_pulse_count,\* self.clock_pulse_count
    cg_loop,             \* clock thread: "dead", or the line it is about to run
    cg_loop_time,        \* local current_time of _clock_loop
    cg_loop_count,       \* the value read by clock_pulse_count += 1
    cg_ctl,              \* control thread: "idle", or the line it is about to run
    cg_sent,             \* history: the messages sent, [msg, to], in order
    cg_ret               \* history: the start_playback call that returned last

cg_vars == << cg_time, cg_running, cg_devices, cg_is_playing, cg_current_bpm,
              cg_clock_interval, cg_last_clock_time, cg_clock_pulse_count,
              cg_loop, cg_loop_time, cg_loop_count, cg_ctl, cg_sent, cg_ret >>

\* MIDI constants
MIDI_CLOCK == 248
MIDI_START == 250
MIDI_STOP == 252
MIDI_ACTIVE_SENSING == 254
PULSES_PER_QUARTER_NOTE == 24
\* active sensing every 300 ms when not playing
ActiveSensingMs == 300

\* time.time() when the generator is constructed: the epoch is long past,
\* while last_clock_time starts at 0.0
ClockEpoch == 1000
\* time.time() runs up to MaxClockTime
MaxClockTime == 1300
\* the steps time advances by, in ms
ClockTicks == {150}
\* at most MaxDevices devices are registered
MaxDevices == 1
DeviceIds == {"usb_roland_1", "usb_korg_1"}
\* at most MaxSent messages are sent
MaxSent == 3
\* arguments MIDIClockGenerator.set_bpm is called with
ClockBpmInputs == {0, 60}

Frac(n, d) == [n |-> n, d |-> d]
\* a / k for a fraction a and an integer k /= 0
FracDivInt(a, k) == Frac(a.n, a.d * k)
\* 1 / a for a fraction a /= 0
FracInv(a) == Frac(a.d, a.n)
\* ms / 1000 >= a
MsAtLeast(ms, a) ==
    IF a.d > 0 THEN ms * a.d >= 1000 * a.n ELSE ms * a.d <= 1000 * a.n

\* _update_clock_interval, lines 74-76, for pulses_per_second /= 0
ClockInterval(bpm) ==
    LET pulses_per_minute == Frac(PULSES_PER_QUARTER_NOTE * bpm, 1)
        pulses_per_second == FracDivInt(pulses_per_minute, 60)
    IN  FracInv(pulses_per_second)

\* a return of start_playback: whether it found the generator stopped, the
\* messages it sent, and the pulse counter when it was called and when it
\* returned
CG_Ret(op, transition, sent, count, pre) ==
    [op |-> op, transition |-> transition, sent |-> sent, count |-> count,
     pre |-> pre]

CG_Init ==
    /\ cg_time = ClockEpoch
    /\ cg_running = FALSE
    /\ cg_devices = << >>
    /\ cg_is_playing = FALSE
    /\ cg_current_bpm = DefaultBpm
    /\ cg_clock_interval = ClockInterval(DefaultBpm)
    /\ cg_last_clock_time = 0
    /\ cg_clock_pulse_count = 0
    /\ cg_loop = "dead"
    /\ cg_loop_time = 0
    /\ cg_loop_count = 0
    /\ cg_ctl = "idle"
    /\ cg_sent = << >>
    /\ cg_ret = CG_Ret("none", FALSE, << >>, 0, 0)

CG_Tick(d) ==
    /\ cg_time + d <= MaxClockTime
    /\ cg_time' = cg_time + d
    /\ UNCHANGED << cg_running, cg_devices, cg_is_playing, cg_current_bpm,
                    cg_clock_interval, cg_last_clock_time,
                    cg_clock_pulse_count, cg_loop, cg_loop_time, cg_loop_count,
                    cg_ctl, cg_sent, cg_ret >>

\* send_to_all_devices: every device of the list is connected (add_device)
SendToAll(message) == Append(cg_sent, [msg |-> message, to |-> cg_devices])

\* MIDIClockGenerator.add_device
CG_add_device(port_id) ==
    /\ cg_ctl = "idle"
    /\ Len(cg_devices) < MaxDevices
    /\ cg_devices' = Append(cg_devices, port_id)
    /\ UNCHANGED cg_ret
    /\ UNCHANGED << cg_time, cg_running, cg_is_playing, cg_current_bpm,
                    cg_clock_interval, cg_last_clock_time,
                    cg_clock_pulse_count, cg_loop, cg_loop_time, cg_loop_count,
                    cg_ctl, cg_sent >>

\* the list without its first device of that port id
RemoveFirst(devices, port_id) ==
    LET i == CHOOSE k \in 1..Len(devices) :
                 /\ devices[k] = port_id
                 /\ \A j \in 1..(k - 1) : devices[j] /= port_id
    IN  SubSeq(devices, 1, i - 1) \o SubSeq(devices, i + 1, Len(devices))

\* MIDIClockGenerator.remove_device
CG_remove_device(port_id) ==
    /\ cg_ctl = "idle"
    /\ cg_devices' = IF \E k \in 1..Len(cg_devices) : cg_devices[k] = port_id
                     THEN RemoveFirst(cg_devices, port_id)
                     ELSE cg_devices
    /\ UNCHANGED cg_ret
    /\ UNCHANGED << cg_time, cg_running, cg_is_playing, cg_current_bpm,
                    cg_clock_interval, cg_last_clock_time,
                    cg_clock_pulse_count, cg_loop, cg_loop_time, cg_loop_count,
                    cg_ctl, cg_sent >>

\* MIDIClockGenerator.start: the clock thread is created once
CG_start ==
    /\ cg_ctl = "idle"
    /\ ~cg_running
    /\ cg_running' = TRUE
    /\ cg_loop' = "l145"
    /\ UNCHANGED cg_ret
    /\ UNCHANGED << cg_time, cg_devices, cg_is_playing, cg_current_bpm,
                    cg_clock_interval, cg_last_clock_time,
                    cg_clock_pulse_count, cg_loop_time, cg_loop_count, cg_ctl,
                    cg_sent >>

\* start_playback, lines 111-112: if not self.is_playing: is_playing = True
CG_start_playback_111 ==
    /\ cg_ctl = "idle"
    /\ IF ~cg_is_playing
       THEN /\ cg_is_playing' = TRUE
            /\ cg_ctl' = "l113"
            /\ cg_ret' = CG_Ret("in_call", TRUE, << >>, 0,
                                cg_clock_pulse_count)
       ELSE /\ cg_ret' = CG_Ret("start_playback", FALSE, << >>,
                                cg_clock_pulse_count, cg_clock_pulse_count)
            /\ UNCHANGED << cg_is_playing, cg_ctl >>
    /\ UNCHANGED << cg_time, cg_running, cg_devices, cg_current_bpm,
                    cg_clock_interval, cg_last_clock_time,
                    cg_clock_pulse_count, cg_loop, cg_loop_time, cg_loop_count,
                    cg_sent >>

\* start_playback, line 113: clock_pulse_count = 0
CG_start_playback_113 ==
    /\ cg_ctl = "l113"
    /\ cg_clock_pulse_count' = 0
    /\ cg_ctl' = "l114"
    /\ UNCHANGED << cg_time, cg_running, cg_devices, cg_is_playing,
                    cg_current_bpm, cg_clock_interval, cg_last_clock_time,
                    cg_loop, cg_loop_time, cg_loop_count, cg_sent,
                    cg_ret >>

\* start_playback, line 114: last_clock_time = time.time()
CG_start_playback_114 ==
    /\ cg_ctl = "l114"
    /\ cg_last_clock_time' = cg_time
    /\ cg_ctl' = "l117"
    /\ UNCHANGED << cg_time, cg_running, cg_devices, cg_is_playing,
                    cg_current_bpm, cg_clock_interval, cg_clock_pulse_count,
                    cg_loop, cg_loop_time, cg_loop_count, cg_sent,
                    cg_ret >>

\* start_playback, lines 117-118: the Start message is sent; return
CG_start_playback_117 ==
    /\ cg_ctl = "l117"
    /\ Len(cg_sent) < MaxSent
    /\ cg_sent' = SendToAll(MIDI_START)
    /\ cg_ctl' = "idle"
    /\ cg_ret' = CG_Ret("start_playback", TRUE, << MIDI_START >>,
                        cg_clock_pulse_count, cg_ret.pre)
    /\ UNCHANGED << cg_time, cg_running, cg_devices, cg_is_playing,
                    cg_current_bpm, cg_clock_interval, cg_last_clock_time,
                    cg_clock_pulse_count, cg_loop, cg_loop_time, cg_loop_count >>

\* stop_playback without the test of line 122
CG_stop_playback_122_Unguarded ==
    /\ cg_ctl = "idle"
    /\ cg_is_playing' = FALSE
    /\ cg_ctl' = "l126"
    /\ UNCHANGED << cg_time, cg_running, cg_devices, cg_current_bpm,
                    cg_clock_interval, cg_last_clock_time,
                    cg_clock_pulse_count, cg_loop, cg_loop_time, cg_loop_count,
                    cg_sent, cg_ret >>
\* stop_playback, lines 122-123: if self.is_playing: is_playing = False
CG_stop_playback_122 ==
    /\ cg_ctl = "idle"
    /\ IF cg_is_playing
       THEN /\ cg_is_playing' = FALSE
            /\ cg_ctl' = "l126"
            /\ UNCHANGED cg_ret
       ELSE UNCHANGED << cg_is_playing, cg_ctl, cg_ret >>
    /\ UNCHANGED << cg_time, cg_running, cg_devices, cg_current_bpm,
                    cg_clock_interval, cg_last_clock_time,
                    cg_clock_pulse_count, cg_loop, cg_loop_time, cg_loop_count,
                    cg_sent >>

\* stop_playback, lines 126-127: the Stop message is sent; return
CG_stop_playback_126 ==
    /\ cg_ctl = "l126"
    /\ Len(cg_sent) < MaxSent
    /\ cg_sent' = SendToAll(MIDI_STOP)
    /\ cg_ctl' = "idle"
    /\ UNCHANGED cg_ret
    /\ UNCHANGED << cg_time, cg_running, cg_devices, cg_is_playing,
                    cg_current_bpm, cg_clock_interval, cg_last_clock_time,
                    cg_clock_pulse_count, cg_loop, cg_loop_time, cg_loop_count >>

\* set_bpm, line 131: self.current_bpm = bpm
CG_set_bpm_131(bpm) ==
    /\ cg_ctl = "idle"
    /\ cg_current_bpm' = bpm
    /\ cg_ctl' = "l74"
    /\ UNCHANGED << cg_time, cg_running, cg_devices, cg_is_playing,
                    cg_clock_interval, cg_last_clock_time,
                    cg_clock_pulse_count, cg_loop, cg_loop_time, cg_loop_count,
                    cg_sent, cg_ret >>

\* set_bpm, line 132: _update_clock_interval, lines 74-76. With
\* pulses_per_second = 0.0 line 76 raises ZeroDivisionError, which leaves
\* set_bpm with clock_interval as it was.
CG_set_bpm_74 ==
    /\ cg_ctl = "l74"
    /\ cg_clock_interval' =
           IF PULSES_PER_QUARTER_NOTE * cg_current_bpm = 0
           THEN cg_clock_interval
           ELSE ClockInterval(cg_current_bpm)
    /\ cg_ctl' = "idle"
    /\ UNCHANGED cg_ret
    /\ UNCHANGED << cg_time, cg_running, cg_devices, cg_is_playing,
                    cg_current_bpm, cg_last_clock_time, cg_clock_pulse_count,
                    cg_loop, cg_loop_time, cg_loop_count, cg_sent >>

\* _clock_loop, line 145: while self.running
CG_loop_145 ==
    /\ cg_loop = "l145"
    /\ cg_loop' = IF cg_running THEN "l147" ELSE "dead"
    /\ UNCHANGED << cg_time, cg_running, cg_devices, cg_is_playing,
                    cg_current_bpm, cg_clock_interval, cg_last_clock_time,
                    cg_clock_pulse_count, cg_loop_time, cg_loop_count, cg_ctl,
                    cg_sent, cg_ret >>

\* _clock_loop, line 147: current_time = time.time()
CG_loop_147 ==
    /\ cg_loop = "l147"
    /\ cg_loop_time' = cg_time
    /\ cg_loop' = "l149"
    /\ UNCHANGED << cg_time, cg_running, cg_devices, cg_is_playing,
                    cg_current_bpm, cg_clock_interval, cg_last_clock_time,
                    cg_clock_pulse_count, cg_loop_count, cg_ctl, cg_sent, cg_ret >>

\* _clock_loop, lines 149-156: which branch the iteration takes
CG_loop_149 ==
    /\ cg_loop = "l149"
    /\ cg_loop' =
         IF cg_is_playing
         THEN IF MsAtLeast(cg_loop_time - cg_last_clock_time, cg_clock_interval)
              THEN "l137" ELSE "l161"
         ELSE IF cg_loop_time - cg_last_clock_time >= ActiveSensingMs
              THEN "l157" ELSE "l161"
    /\ UNCHANGED << cg_time, cg_running, cg_devices, cg_is_playing,
                    cg_current_bpm, cg_clock_interval, cg_last_clock_time,
                    cg_clock_pulse_count, cg_loop_time, cg_loop_count, cg_ctl,
                    cg_sent, cg_ret >>

\* _send_clock_pulse, line 137: if self.is_playing
CG_pulse_137 ==
    /\ cg_loop = "l137"
    /\ cg_loop' = IF cg_is_playing THEN "l138" ELSE "l153"
    /\ UNCHANGED << cg_time, cg_running, cg_devices, cg_is_playing,
                    cg_current_bpm, cg_clock_interval, cg_last_clock_time,
                    cg_clock_pulse_count, cg_loop_time, cg_loop_count, cg_ctl,
                    cg_sent, cg_ret >>

\* _send_clock_pulse, line 138: the clock pulse is sent
CG_pulse_138 ==
    /\ cg_loop = "l138"
    /\ Len(cg_sent) < MaxSent
    /\ cg_sent' = SendToAll(MIDI_CLOCK)
    /\ cg_loop' = "l139"
    /\ UNCHANGED << cg_time, cg_running, cg_devices, cg_is_playing,
                    cg_current_bpm, cg_clock_interval, cg_last_clock_time,
                    cg_clock_pulse_count, cg_loop_time, cg_loop_count, cg_ctl,
                    cg_ret >>

\* _send_clock_pulse, line 139: clock_pulse_count += 1 reads the counter
CG_pulse_139 ==
    /\ cg_loop = "l139"
    /\ cg_loop_count' = cg_clock_pulse_count
    /\ cg_loop' = "l139w"
    /\ UNCHANGED << cg_time, cg_running, cg_devices, cg_is_playing,
                    cg_current_bpm, cg_clock_interval, cg_last_clock_time,
                    cg_clock_pulse_count, cg_loop_time, cg_ctl, cg_sent, cg_ret >>

\* _send_clock_pulse, line 139: ... and stores the sum
CG_pulse_139w ==
    /\ cg_loop = "l139w"
    /\ cg_clock_pulse_count' = cg_loop_count + 1
    /\ cg_loop_count' = 0
    /\ cg_loop' = "l153"
    /\ UNCHANGED << cg_time, cg_running, cg_devices, cg_is_playing,
                    cg_current_bpm, cg_clock_interval, cg_last_clock_time,
                    cg_loop_time, cg_ctl, cg_sent, cg_ret >>

\* _clock_loop, line 153: last_clock_time = current_time
CG_loop_153 ==
    /\ cg_loop = "l153"
    /\ cg_last_clock_time' = cg_loop_time
    /\ cg_loop' = "l161"
    /\ UNCHANGED << cg_time, cg_running, cg_devices, cg_is_playing,
                    cg_current_bpm, cg_clock_interval, cg_clock_pulse_count,
                    cg_loop_time, cg_loop_count, cg_ctl, cg_sent,
                    cg_ret >>

\* _clock_loop, line 157: active sensing is sent
CG_loop_157 ==
    /\ cg_loop = "l157"
    /\ Len(cg_sent) < MaxSent
    /\ cg_sent' = SendToAll(MIDI_ACTIVE_SENSING)
    /\ cg_loop' = "l158"
    /\ UNCHANGED << cg_time, cg_running, cg_devices, cg_is_playing,
                    cg_current_bpm, cg_clock_interval, cg_last_clock_time,
                    cg_clock_pulse_count, cg_loop_time, cg_loop_count, cg_ctl,
                    cg_ret >>

\* _clock_loop, line 158: last_clock_time = current_time
CG_loop_158 ==
    /\ cg_loop = "l158"
    /\ cg_last_clock_time' = cg_loop_time
    /\ cg_loop' = "l161"
    /\ UNCHANGED << cg_time, cg_running, cg_devices, cg_is_playing,
                    cg_current_bpm, cg_clock_interval, cg_clock_pulse_count,
                    cg_loop_time, cg_loop_count, cg_ctl, cg_sent,
                    cg_ret >>

\* _clock_loop, line 161: time.sleep(0.001); current_time is dead from here
CG_loop_161 ==
    /\ cg_loop = "l161"
    /\ cg_loop' = "l145"
    /\ cg_loop_time' = 0
    /\ UNCHANGED << cg_time, cg_running, cg_devices, cg_is_playing,
                    cg_current_bpm, cg_clock_interval, cg_last_clock_time,
                    cg_clock_pulse_count, cg_loop_count, cg_ctl, cg_sent,
                    cg_ret >>

\* MIDIClockGenerator.stop, lines 182-185: on a generator that is not
\* running nothing happens; else self.running = False. The history records
\* whether the generator was Playing when stop was called.
CG_stop_182 ==
    /\ cg_ctl = "idle"
    /\ IF ~cg_running
       THEN UNCHANGED << cg_running, cg_ctl, cg_ret >>
       ELSE /\ cg_running' = FALSE
            /\ cg_ctl' = "s186"
            /\ cg_ret' = CG_Ret("in_stop", cg_is_playing, << >>, 0, 0)
    /\ UNCHANGED << cg_time, cg_devices, cg_is_playing, cg_current_bpm,
                    cg_clock_interval, cg_last_clock_time,
                    cg_clock_pulse_count, cg_loop, cg_loop_time, cg_loop_count,
                    cg_sent >>

\* stop, line 186: stop_playback, lines 122-123
CG_stop_186 ==
    /\ cg_ctl = "s186"
    /\ IF cg_is_playing
       THEN cg_is_playing' = FALSE /\ cg_ctl' = "s126"
       ELSE cg_ctl' = "s189" /\ UNCHANGED cg_is_playing
    /\ UNCHANGED << cg_time, cg_running, cg_devices, cg_current_bpm,
                    cg_clock_interval, cg_last_clock_time,
                    cg_clock_pulse_count, cg_loop, cg_loop_time, cg_loop_count,
                    cg_sent, cg_ret >>

\* stop, line 186: stop_playback, lines 126-127: the Stop message is sent
CG_stop_126 ==
    /\ cg_ctl = "s126"
    /\ Len(cg_sent) < MaxSent
    /\ cg_sent' = SendToAll(MIDI_STOP)
    /\ cg_ctl' = "s189"
    /\ UNCHANGED << cg_time, cg_running, cg_devices, cg_is_playing,
                    cg_current_bpm, cg_clock_interval, cg_last_clock_time,
                    cg_clock_pulse_count, cg_loop, cg_loop_time, cg_loop_count,
                    cg_ret >>

\* stop, lines 188-191: self.thread.join(timeout=1.0) returns when the clock
\* thread, whose iterations take about a millisecond, has ended
CG_stop_189 ==
    /\ cg_ctl = "s189"
    /\ cg_loop = "dead"
    /\ cg_ctl' = "idle"
    /\ cg_ret' = CG_Ret("stop", cg_ret.transition, << >>, 0, 0)
    /\ UNCHANGED << cg_time, cg_running, cg_devices, cg_is_playing,
                    cg_current_bpm, cg_clock_interval, cg_last_clock_time,
                    cg_clock_pulse_count, cg_loop, cg_loop_time, cg_loop_count,
                    cg_sent >>

(***************************************************************************)
(*                       MIDI MESSAGES AND FILTERS                         *)
(*                                                                         *)
(* An Optional field is << >> for None and << v >> for the value v.        *)
(***************************************************************************)
\* MIDIMessageType
NOTE_OFF == 128
NOTE_ON == 144
POLY_AFTERTOUCH == 160
CONTROL_CHANGE == 176
PROGRAM_CHANGE == 192
CHANNEL_AFTERTOUCH == 208
PITCH_BEND == 224
SYSTEM_EXCLUSIVE == 240
TIMING_CLOCK == 248
START == 250
CONTINUE == 251
STOP == 252
ACTIVE_SENSING == 254
SYSTEM_RESET == 255

MIDIMessageType ==
    {NOTE_OFF, NOTE_ON, POLY_AFTERTOUCH, CONTROL_CHANGE, PROGRAM_CHANGE,
     CHANNEL_AFTERTOUCH, PITCH_BEND, SYSTEM_EXCLUSIVE, TIMING_CLOCK, START,
     CONTINUE, STOP, ACTIVE_SENSING, SYSTEM_RESET}

\* MIDIMessage (the timestamp is carried along and never read)
MIDIMessage(message_type, channel, data1, data2) ==
    [message_type |-> message_type, channel |-> channel, data1 |-> data1,
     data2 |-> data2, raw_data |-> << >>]

\* MIDIFilter
MIDIFilter(enabled, channel_filter, message_type_filter, velocity_range,
           note_range) ==
    [enabled |-> enabled, channel_filter |-> channel_filter,
     message_type_filter |-> message_type_filter,
     velocity_range |-> velocity_range, note_range |-> note_range]

\* should_pass with the ranges applied to every kind of message
should_pass_RangesOnAll(f, message) ==
    IF ~f.enabled THEN TRUE
    ELSE IF f.channel_filter /= << >>
            /\ message.channel \notin f.channel_filter[1] THEN FALSE
    ELSE IF f.message_type_filter /= << >>
            /\ message.message_type \notin f.message_type_filter[1] THEN FALSE
    ELSE IF f.velocity_range /= << >>
            /\ ~(f.velocity_range[1][1] <= message.data2
                    /\ message.data2 <= f.velocity_range[1][2]) THEN FALSE
    ELSE IF f.note_range /= << >>
            /\ ~(f.note_range[1][1] <= message.data1
                    /\ message.data1 <= f.note_range[1][2]) THEN FALSE
    ELSE TRUE

\* MIDIFilter.should_pass
should_pass(f, message) ==
    IF ~f.enabled THEN TRUE
    ELSE IF f.channel_filter /= << >>
            /\ message.channel \notin f.channel_filter[1] THEN FALSE
    ELSE IF f.message_type_filter /= << >>
            /\ message.message_type \notin f.message_type_filter[1] THEN FALSE
    ELSE IF f.velocity_range /= << >>
            /\ message.message_type \in {NOTE_ON, NOTE_OFF}
            /\ ~(f.velocity_range[1][1] <= message.data2
                    /\ message.data2 <= f.velocity_range[1][2]) THEN FALSE
    ELSE IF f.note_range /= << >>
            /\ message.message_type \in {NOTE_ON, NOTE_OFF}
            /\ ~(f.note_range[1][1] <= message.data1
                    /\ message.data1 <= f.note_range[1][2]) THEN FALSE
    ELSE TRUE

\* MIDIConnection.process_message, lines 197-199: the first filter that
\* rejects the message drops it
FiltersPass_Any(filters, message) ==
    filters = << >>
        \/ \E k \in 1..Len(filters) : should_pass(filters[k], message)
FiltersPass(filters, message) ==
    \A k \in 1..Len(filters) : should_pass(filters[k], message)

(***************************************************************************)
(*                     MIDITransform AND to_bytes                          *)
(***************************************************************************)
\* MIDITransform: channel_map is a function from channels to channels,
\* velocity_curve a sequence whose element k + 1 is the curve's value at k
MIDITransform(enabled, channel_map, transpose, velocity_curve) ==
    [enabled |-> enabled, channel_map |-> channel_map, transpose |-> transpose,
     velocity_curve |-> velocity_curve]

\* new_note = max(0, min(127, message.data1 + self.transpose))
TransposeNote_NoFloor(data1, transpose) == Min(127, data1 + transpose)
TransposeNote(data1, transpose) == Max(0, Min(127, data1 + transpose))

\* transform with channel 0 for a channel that is no key of the map
transform_NoPassthrough(t, message) ==
    IF ~t.enabled THEN message
    ELSE LET is_note == message.message_type \in {NOTE_ON, NOTE_OFF}
             channel ==
                 IF t.channel_map /= << >>
                    /\ DOMAIN t.channel_map[1] /= {}
                 THEN IF message.channel \in DOMAIN t.channel_map[1]
                      THEN t.channel_map[1][message.channel]
                      ELSE 0
                 ELSE message.channel
             data1 ==
                 IF t.transpose /= 0 /\ is_note
                 THEN TransposeNote(message.data1, t.transpose)
                 ELSE message.data1
             data2 ==
                 IF t.velocity_curve /= << >>
                    /\ Len(t.velocity_curve[1]) > 0
                    /\ is_note
                    /\ 0 <= message.data2
                    /\ message.data2 < Len(t.velocity_curve[1])
                 THEN t.velocity_curve[1][message.data2 + 1]
                 ELSE message.data2
         IN  MIDIMessage(message.message_type, channel, data1, data2)

\* MIDITransform.transform
transform(t, message) ==
    IF ~t.enabled THEN message
    ELSE LET is_note == message.message_type \in {NOTE_ON, NOTE_OFF}
             channel ==
                 IF t.channel_map /= << >>
                    /\ DOMAIN t.channel_map[1] /= {}
                    /\ message.channel \in DOMAIN t.channel_map[1]
                 THEN t.channel_map[1][message.channel]
                 ELSE message.channel
             data1 ==
                 IF t.transpose /= 0 /\ is_note
                 THEN TransposeNote(message.data1, t.transpose)
                 ELSE message.data1
             data2 ==
                 IF t.velocity_curve /= << >>
                    /\ Len(t.velocity_curve[1]) > 0
                    /\ is_note
                    /\ 0 <= message.data2
                    /\ message.data2 < Len(t.velocity_curve[1])
                 THEN t.velocity_curve[1][message.data2 + 1]
                 ELSE message.data2
         IN  MIDIMessage(message.message_type, channel, data1, data2)

\* MIDIConnection.process_message, lines 202-204
RECURSIVE ApplyTransforms_Reversed(_, _)
ApplyTransforms_Reversed(transforms, message) ==
    IF transforms = << >> THEN message
    ELSE transform(Head(transforms),
                   ApplyTransforms_Reversed(Tail(transforms), message))
RECURSIVE ApplyTransforms(_, _)
ApplyTransforms(transforms, message) ==
    IF transforms = << >> THEN message
    ELSE ApplyTransforms(Tail(transforms), transform(Head(transforms), message))

\* message_type.value | (channel & 0x0F): the type of a channel message has a
\* zero low nibble, so the bitwise or is a sum; & 0x0F of a channel >= 0 is
\* its remainder modulo 16
StatusByte_NoChannel(message_type, channel) == message_type
StatusByte(message_type, channel) == message_type + (channel % 16)

\* to_bytes, lines 57-60: the number of data bytes of a channel message
DataByteCount_AlwaysTwo(message_type) == 2
DataByteCount(message_type) ==
    IF message_type \in {PROGRAM_CHANGE, CHANNEL_AFTERTOUCH} THEN 1 ELSE 2

\* MIDIMessage.to_bytes
to_bytes(message) ==
    IF message.raw_data /= << >> THEN message.raw_data
    ELSE IF message.message_type >= 240 THEN << message.message_type >>
    ELSE LET status == StatusByte(message.message_type, message.channel)
         IN  IF DataByteCount(message.message_type) = 1
             THEN << status, message.data1 >>
             ELSE << status, message.data1, message.data2 >>

VARIABLES
    tf_transform,   \* the MIDITransform transform is called on
    tf_message,     \* the message it is called with
    tf_result,      \* << >> before the call, << the message returned >> after
    bt_message,     \* the MIDIMessage to_bytes is called on
    bt_bytes        \* << >> before the call, << the bytes returned >> after

pf_vars == << tf_transform, tf_message, tf_result, bt_message, bt_bytes >>

\* the transpose offsets, channel maps and velocity curves of the transforms
TransposeInputs == {-128, -127, -70, -1, 0, 1, 12, 67, 127, 128}
ChannelMapInputs == {<< >>, << [c \in {0} |-> 5] >>}
VelocityCurveInputs == {<< >>, << [k \in 1..128 |-> Min(127, 2 * (k - 1))] >>}
\* the note numbers and velocities of the messages
NoteInputs == 0..127
VelocityInputs == {0, 100, 127, 128}

TF_Idle ==
    /\ tf_transform = MIDITransform(TRUE, << >>, 0, << >>)
    /\ tf_message = MIDIMessage(NOTE_ON, 0, 60, 100)
    /\ tf_result = << >>

\* every transform and message a call is made with
TF_Init ==
    /\ tf_transform \in
           {MIDITransform(e, cm, tr, vc) :
               e \in BOOLEAN, cm \in ChannelMapInputs, tr \in TransposeInputs,
               vc \in VelocityCurveInputs}
    /\ tf_message \in
           {MIDIMessage(ty, ch, d1, d2) :
               ty \in {NOTE_ON, NOTE_OFF, CONTROL_CHANGE}, ch \in {0, 1},
               d1 \in NoteInputs, d2 \in VelocityInputs}
    /\ tf_result = << >>

\* the call transform.transform(message)
TF_transform ==
    /\ tf_result = << >>
    /\ tf_result' = << transform(tf_transform, tf_message) >>
    /\ UNCHANGED << tf_transform, tf_message, bt_message, bt_bytes >>

\* the channels and data bytes of the messages to_bytes is called on
ChannelInputs == {0, 1, 9, 15, 16}
DataInputs == {0, 60, 100, 127}
RawDataInputs == {<< >>, << 248 >>}

BT_Idle ==
    /\ bt_message = MIDIMessage(NOTE_ON, 0, 60, 100)
    /\ bt_bytes = << >>

\* every message to_bytes is called on
BT_Init ==
    /\ bt_message \in
           {[MIDIMessage(ty, ch, d1, d2) EXCEPT !.raw_data = raw] :
               ty \in MIDIMessageType, ch \in ChannelInputs,
               d1 \in DataInputs, d2 \in DataInputs, raw \in RawDataInputs}
    /\ bt_bytes = << >>

\* the call message.to_bytes()
BT_to_bytes ==
    /\ bt_bytes = << >>
    /\ bt_bytes' = << to_bytes(bt_message) >>
    /\ UNCHANGED << tf_transform, tf_message, tf_result, bt_message >>

(***************************************************************************)
(*                              MIDI ROUTER                                *)
(*                                                                         *)
(* self.connections is a list object.  add_connection and                  *)
(* remove_connection change it in place; remove_port binds                 *)
(* self.connections to a new list, and a `for` of route_message in         *)
(* progress keeps walking, by index, the list object it began with.  Of    *)
(* that old list the model keeps the elements the iterator has not passed  *)
(* yet.  They are the connection objects themselves: one still in          *)
(* self.connections is named by its position there (ref); one no longer in *)
(* it cannot change any more, and of it the list keeps what route_message  *)
(* reads (obj): its output_port and what lines 351-353 make of the message *)
(* in hand.                                                                *)
(***************************************************************************)
VARIABLES
    rt_running,      \* MIDIRouter.running
    rt_thread,       \* self.thread: the worker created last, 0 for None
    rt_ports,        \* self.ports: port id -> MIDIPort
    rt_connections,  \* self.connections
    rt_message_callbacks,  \* self.message_callbacks
    rt_queue,        \* self.message_queue: (message, port_id) pairs
    rt_accepted,     \* how many messages the queue has accepted so far
    rt_wk,           \* per worker thread: "dead", or the line it is about to
                     \* run
    rt_wk_message,   \* per worker: << >>, or << (message, input_port) >> taken
                     \* off the queue
    rt_wk_same,      \* per worker: the list it walks is still self.connections
    rt_wk_old,       \* per worker: the list it walks, once it no longer is
    rt_wk_idx,       \* per worker: how many elements its iterator of the
                     \* connections has passed
    rt_wk_cb,        \* per worker: how many elements its iterator of the
                     \* callbacks has passed
    rt_ctl,          \* control thread: "idle", or the line it is about to run
    rt_ctl_port,     \* the port_id of the remove_port call in progress
    rt_log,          \* history, per worker: the forwards of the message it
                     \* routed last
    rt_mutated,      \* history, per worker: a control call changed ports or
                     \* connections since that routing began
    rt_before,       \* history: self.connections as the remove_port call in
                     \* progress found it
    rt_wk_seq,       \* history, per worker: the how-manieth accepted message
                     \* it has in hand
    rt_delivered,    \* history: the highest such number among the messages
                     \* forwarded to a port so far
    rt_cb_start,     \* history, per worker: self.message_callbacks when the
                     \* forward in progress began to notify
    rt_invoked,      \* history, per worker: the callbacks invoked, with their
                     \* arguments, for the forward in progress
    rt_time,         \* time.time(), in milliseconds since the construction
    rt_total_messages_processed,  \* self.total_messages_processed
    rt_messages_per_second,       \* self.messages_per_second, a fraction
    rt_last_stats_update          \* self.last_stats_update, in milliseconds

\* the statistics fields and the clock they are computed from
rt_stat_vars == << rt_time, rt_total_messages_processed,
                   rt_messages_per_second, rt_last_stats_update >>

\* what belongs to the worker threads
rt_wk_vars == << rt_wk, rt_wk_message, rt_wk_same, rt_wk_old, rt_wk_idx,
                 rt_wk_cb, rt_log, rt_wk_seq, rt_cb_start, rt_invoked >>

rt_vars == << rt_running, rt_thread, rt_ports, rt_connections,
              rt_message_callbacks, rt_queue, rt_accepted, rt_wk_vars, rt_ctl,
              rt_ctl_port, rt_mutated, rt_before, rt_delivered, rt_stat_vars >>

\* at most MaxConnections connections are in self.connections
MaxConnections == 2
\* at most MaxFilters filters are attached to the connections in all
MaxFilters == 2
\* at most MaxQueue messages wait in the queue
MaxQueue == 2
\* at most MaxMessages messages are accepted in a run
MaxMessages == 2
\* at most MaxWorkers worker threads are alive at a time
MaxWorkers == 2
\* at most MaxCallbacks callbacks are registered
MaxCallbacks == 2
\* the statistics clock stops at MaxStatTime milliseconds
MaxStatTime == 2500

Workers == 1..MaxWorkers

PortIds == {"input_1", "input_2", "output_1"}
\* the ids that are registered as inputs (is_input=True of add_port)
InputPortIds == {"input_1", "input_2"}

\* the callbacks registered, and those of them that raise when invoked
CallbackIds == {"observer_1", "observer_2"}
RaisingCallbacks == {"observer_1"}

\* the steps of the statistics clock, in milliseconds
StatTicks == {500}

\* the filters attached: channel 0 only; notes 60..84 only (the router's
\* own example)
FilterInputs ==
    {MIDIFilter(TRUE, << {0} >>, << >>, << >>, << >>),
     MIDIFilter(TRUE, << >>, << >>, << >>, << << 60, 84 >> >>)}
\* the messages received: the first filter passes it, the second does not
MessageInputs == {MIDIMessage(NOTE_ON, 0, 90, 100)}

\* MIDIPort.__init__, and is_connected = True of add_port
MIDIPort(is_input) ==
    [is_input |-> is_input, is_connected |-> TRUE, message_count |-> 0,
     error_count |-> 0]

\* MIDIConnection
MIDIConnection(input_port, output_port) ==
    [input_port |-> input_port, output_port |-> output_port, enabled |-> TRUE,
     filters |-> << >>, transforms |-> << >>]

\* MIDIConnection.process_message: << >> for None, else << the message >>
process_message(connection, message) ==
    IF ~connection.enabled THEN << >>
    ELSE IF ~FiltersPass(connection.filters, message) THEN << >>
    ELSE << ApplyTransforms(connection.transforms, message) >>

\* route_message, lines 351-355: what a connection makes of the message,
\* << >> if it does not forward it
Processed(connection, message, input_port) ==
    IF connection.input_port = input_port /\ connection.enabled
    THEN process_message(connection, message)
    ELSE << >>

\* the elements of self.connections after the first idx, as a worker's
\* iterator is to see them
Refs(connections, idx) ==
    [k \in 1..(Len(connections) - idx) |-> [ref |-> idx + k, obj |-> << >>]]

\* a list walked with the message in hand, after self.connections lost the
\* positions not in kept
Remap(old, kept, in_hand) ==
    [j \in 1..Len(old) |->
        IF old[j].ref = 0 THEN old[j]
        ELSE IF old[j].ref \in kept
        THEN [ref |-> Cardinality({k \in kept : k <= old[j].ref}),
              obj |-> << >>]
        ELSE [ref |-> 0,
              obj |-> << [output_port |->
                              rt_connections[old[j].ref].output_port,
                          processed |->
                              Processed(rt_connections[old[j].ref],
                                        in_hand[1][1], in_hand[1][2])] >>]]

\* the number of filters attached to the connections of a list
RECURSIVE FilterCount(_)
FilterCount(connections) ==
    IF connections = << >> THEN 0
    ELSE Len(Head(connections).filters) + FilterCount(Tail(connections))

\* the index of the first connection input_port -> output_port, 0 if none
FirstConnection(input_port, output_port) ==
    LET hits == {k \in 1..Len(rt_connections) :
                    /\ rt_connections[k].input_port = input_port
                    /\ rt_connections[k].output_port = output_port}
    IN  IF hits = {} THEN 0 ELSE CHOOSE k \in hits : \A j \in hits : k <= j

\* the workers' flags after a control call changed the ports or connections:
\* set for every worker with a message in hand
AllMutated == [w \in Workers |-> rt_wk_message[w] /= << >>]

RT_Init ==
    /\ rt_running = FALSE
    /\ rt_thread = 0
    /\ rt_ports = << >>
    /\ rt_connections = << >>
    /\ rt_message_callbacks = << >>
    /\ rt_queue = << >>
    /\ rt_accepted = 0
    /\ rt_wk = [w \in Workers |-> "dead"]
    /\ rt_wk_message = [w \in Workers |-> << >>]
    /\ rt_wk_same = [w \in Workers |-> TRUE]
    /\ rt_wk_old = [w \in Workers |-> << >>]
    /\ rt_wk_idx = [w \in Workers |-> 0]
    /\ rt_wk_cb = [w \in Workers |-> 0]
    /\ rt_ctl = "idle"
    /\ rt_ctl_port = ""
    /\ rt_log = [w \in Workers |-> << >>]
    /\ rt_mutated = [w \in Workers |-> FALSE]
    /\ rt_before = << >>
    /\ rt_wk_seq = [w \in Workers |-> 0]
    /\ rt_delivered = 0
    /\ rt_cb_start = [w \in Workers |-> << >>]
    /\ rt_invoked = [w \in Workers |-> << >>]
    /\ rt_time = 0
    /\ rt_total_messages_processed = 0
    /\ rt_messages_per_second = Frac(0, 1)
    /\ rt_last_stats_update = 0

\* what a control call on the connections leaves alone
rt_fixed_vars == << rt_running, rt_thread, rt_queue, rt_accepted,
                    rt_delivered, rt_stat_vars, rt_wk, rt_wk_message,
                    rt_wk_idx, rt_wk_cb, rt_log, rt_wk_seq, rt_cb_start,
                    rt_invoked >>

\* MIDIRouter.add_port: an id already registered is overwritten
RT_add_port(port_id, is_input) ==
    /\ rt_ctl = "idle"
    /\ rt_ports' = [q \in DOMAIN rt_ports \cup {port_id} |->
                       IF q = port_id THEN MIDIPort(is_input) ELSE rt_ports[q]]
    /\ rt_mutated' = AllMutated
    /\ UNCHANGED << rt_fixed_vars, rt_connections, rt_message_callbacks,
                    rt_wk_same, rt_wk_old, rt_ctl, rt_ctl_port, rt_before >>

\* remove_port, lines 295-296: the connections that do not use the port
KeepsConnection_InputOnly(conn, port_id) == conn.input_port /= port_id
KeepsConnection(conn, port_id) ==
    conn.input_port /= port_id /\ conn.output_port /= port_id

\* MIDIRouter.remove_port, lines 291-296: self.connections is bound to a
\* new list; a `for` in progress keeps the old one
RT_remove_port_291(port_id) ==
    /\ rt_ctl = "idle"
    /\ IF port_id \in DOMAIN rt_ports
       THEN LET walking(w) == rt_wk[w] \in {"l350", "l362"} /\ rt_wk_same[w]
                kept == {k \in 1..Len(rt_connections) :
                            KeepsConnection(rt_connections[k], port_id)}
            IN  /\ rt_connections' =
                       SelectSeq(rt_connections,
                                 LAMBDA conn : KeepsConnection(conn, port_id))
                /\ rt_wk_old' =
                       [w \in Workers |->
                           IF walking(w)
                           THEN Remap(Refs(rt_connections, rt_wk_idx[w]), kept,
                                      rt_wk_message[w])
                           ELSE Remap(rt_wk_old[w], kept, rt_wk_message[w])]
                /\ rt_wk_same' =
                       [w \in Workers |->
                           IF walking(w) THEN FALSE ELSE rt_wk_same[w]]
                /\ rt_ctl' = "l298"
                /\ rt_ctl_port' = port_id
                /\ rt_mutated' = AllMutated
                /\ rt_before' = rt_connections
       ELSE UNCHANGED << rt_connections, rt_before, rt_wk_old, rt_wk_same,
                         rt_ctl, rt_ctl_port, rt_mutated >>
    /\ UNCHANGED << rt_fixed_vars, rt_ports, rt_message_callbacks >>

\* MIDIRouter.remove_port, lines 298-300: del self.ports[port_id]; return True
RT_remove_port_298 ==
    /\ rt_ctl = "l298"
    /\ rt_ports' = [q \in DOMAIN rt_ports \ {rt_ctl_port} |-> rt_ports[q]]
    /\ rt_ctl' = "idle"
    /\ rt_ctl_port' = ""
    /\ rt_mutated' = AllMutated
    /\ rt_before' = << >>
    /\ UNCHANGED << rt_fixed_vars, rt_connections, rt_message_callbacks,
                    rt_wk_same, rt_wk_old >>

\* add_connection, lines 305-311: both ports exist, input -> output
ConnectionAllowed_NoDirection(input_port, output_port) ==
    /\ input_port \in DOMAIN rt_ports
    /\ output_port \in DOMAIN rt_ports
ConnectionAllowed(input_port, output_port) ==
    /\ input_port \in DOMAIN rt_ports
    /\ output_port \in DOMAIN rt_ports
    /\ rt_ports[input_port].is_input
    /\ ~rt_ports[output_port].is_input

\* MIDIRouter.add_connection
RT_add_connection(input_port, output_port) ==
    /\ rt_ctl = "idle"
    /\ IF ConnectionAllowed(input_port, output_port)
       THEN /\ Len(rt_connections) < MaxConnections
            /\ rt_connections' =
                   Append(rt_connections,
                          MIDIConnection(input_port, output_port))
            /\ rt_mutated' = AllMutated
       ELSE UNCHANGED << rt_connections, rt_mutated >>
    /\ UNCHANGED << rt_fixed_vars, rt_ports, rt_message_callbacks, rt_wk_same,
                    rt_wk_old, rt_ctl, rt_ctl_port, rt_before >>

\* MIDIRouter.remove_connection: del self.connections[i] of the first match
RT_remove_connection(input_port, output_port) ==
    /\ rt_ctl = "idle"
    /\ LET i == FirstConnection(input_port, output_port)
       IN  IF i /= 0
           THEN /\ rt_connections' =
                       SubSeq(rt_connections, 1, i - 1)
                           \o SubSeq(rt_connections, i + 1, Len(rt_connections))
                /\ rt_wk_old' =
                       [w \in Workers |->
                           Remap(rt_wk_old[w], (1..Len(rt_connections)) \ {i},
                                 rt_wk_message[w])]
                /\ rt_mutated' = AllMutated
           ELSE UNCHANGED << rt_connections, rt_wk_old, rt_mutated >>
    /\ UNCHANGED << rt_fixed_vars, rt_ports, rt_message_callbacks, rt_wk_same,
                    rt_ctl, rt_ctl_port, rt_before >>

\* MIDIRouter.add_filter_to_connection: the first match gets the filter
RT_add_filter_to_connection(input_port, output_port, filter_obj) ==
    /\ rt_ctl = "idle"
    /\ LET i == FirstConnection(input_port, output_port)
       IN  IF i /= 0
           THEN /\ FilterCount(rt_connections) < MaxFilters
                /\ rt_connections' = [rt_connections EXCEPT ![i].filters =
                                         Append(@, filter_obj)]
                /\ rt_mutated' = AllMutated
           ELSE UNCHANGED << rt_connections, rt_mutated >>
    /\ UNCHANGED << rt_fixed_vars, rt_ports, rt_message_callbacks, rt_wk_same,
                    rt_wk_old, rt_ctl, rt_ctl_port, rt_before >>

\* connection.enabled = enabled, the field of MIDIConnection (line 181)
RT_set_enabled(k, enabled) ==
    /\ rt_ctl = "idle"
    /\ k \in 1..Len(rt_connections)
    /\ rt_connections[k].enabled /= enabled
    /\ rt_connections' = [rt_connections EXCEPT ![k].enabled = enabled]
    /\ rt_mutated' = AllMutated
    /\ UNCHANGED << rt_fixed_vars, rt_ports, rt_message_callbacks, rt_wk_same,
                    rt_wk_old, rt_ctl, rt_ctl_port, rt_before >>

\* MIDIRouter.add_message_callback
RT_add_message_callback(callback) ==
    /\ rt_ctl = "idle"
    /\ Len(rt_message_callbacks) < MaxCallbacks
    /\ \A k \in 1..Len(rt_message_callbacks) : rt_message_callbacks[k] /= callback
    /\ rt_message_callbacks' = Append(rt_message_callbacks, callback)
    /\ UNCHANGED << rt_fixed_vars, rt_ports, rt_connections, rt_wk_same,
                    rt_wk_old, rt_ctl, rt_ctl_port, rt_before, rt_mutated >>

\* MIDIRouter.remove_message_callback: list.remove of the first occurrence
RT_remove_message_callback(callback) ==
    /\ rt_ctl = "idle"
    /\ LET hits == {k \in 1..Len(rt_message_callbacks) :
                       rt_message_callbacks[k] = callback}
       IN  IF hits /= {}
           THEN LET i == CHOOSE k \in hits : \A j \in hits : k <= j
                IN  rt_message_callbacks' =
                        SubSeq(rt_message_callbacks, 1, i - 1)
                            \o SubSeq(rt_message_callbacks, i + 1,
                                      Len(rt_message_callbacks))
           ELSE UNCHANGED rt_message_callbacks
    /\ UNCHANGED << rt_fixed_vars, rt_ports, rt_connections, rt_wk_same,
                    rt_wk_old, rt_ctl, rt_ctl_port, rt_before, rt_mutated >>

\* simulate_input_message without the is_input test of line 370
RT_simulate_input_message_AnyPort(port_id, message) ==
    /\ rt_ctl = "idle"
    /\ IF port_id \in DOMAIN rt_ports
       THEN /\ Len(rt_queue) < MaxQueue
            /\ rt_accepted < MaxMessages
            /\ rt_queue' = Append(rt_queue, << message, port_id >>)
            /\ rt_accepted' = rt_accepted + 1
       ELSE UNCHANGED << rt_queue, rt_accepted >>
    /\ UNCHANGED << rt_running, rt_thread, rt_ports, rt_connections,
                    rt_message_callbacks, rt_wk_vars, rt_ctl, rt_ctl_port,
                    rt_mutated, rt_before, rt_delivered, rt_stat_vars >>
\* MIDIRouter.simulate_input_message
RT_simulate_input_message(port_id, message) ==
    /\ rt_ctl = "idle"
    /\ IF port_id \in DOMAIN rt_ports /\ rt_ports[port_id].is_input
       THEN /\ Len(rt_queue) < MaxQueue
            /\ rt_accepted < MaxMessages
            /\ rt_queue' = Append(rt_queue, << message, port_id >>)
            /\ rt_accepted' = rt_accepted + 1
       ELSE UNCHANGED << rt_queue, rt_accepted >>
    /\ UNCHANGED << rt_running, rt_thread, rt_ports, rt_connections,
                    rt_message_callbacks, rt_wk_vars, rt_ctl, rt_ctl_port,
                    rt_mutated, rt_before, rt_delivered, rt_stat_vars >>

\* MIDIRouter.start: on a router that is running nothing happens; else a
\* worker thread is created and started
RT_start ==
    /\ rt_ctl = "idle"
    /\ IF rt_running
       THEN UNCHANGED << rt_running, rt_thread, rt_wk >>
       ELSE /\ \E w \in Workers : rt_wk[w] = "dead"
            /\ LET w == CHOOSE v \in Workers :
                            /\ rt_wk[v] = "dead"
                            /\ \A u \in Workers : rt_wk[u] = "dead" => v <= u
               IN  /\ rt_running' = TRUE
                   /\ rt_thread' = w
                   /\ rt_wk' = [rt_wk EXCEPT ![w] = "l387"]
    /\ UNCHANGED << rt_ports, rt_connections, rt_message_callbacks, rt_queue,
                    rt_accepted, rt_wk_message, rt_wk_same, rt_wk_old,
                    rt_wk_idx, rt_wk_cb, rt_log, rt_wk_seq, rt_cb_start,
                    rt_invoked, rt_ctl, rt_ctl_port, rt_mutated, rt_before,
                    rt_delivered, rt_stat_vars >>

\* MIDIRouter.stop, lines 418-421: on a router that is not running nothing
\* happens; else self.running = False
RT_stop_418 ==
    /\ rt_ctl = "idle"
    /\ IF ~rt_running
       THEN UNCHANGED << rt_running, rt_ctl >>
       ELSE rt_running' = FALSE /\ rt_ctl' = "l424"
    /\ UNCHANGED << rt_thread, rt_ports, rt_connections, rt_message_callbacks,
                    rt_queue, rt_accepted, rt_wk_vars, rt_ctl_port, rt_mutated,
                    rt_before, rt_delivered, rt_stat_vars >>

\* self.thread.join(timeout=1.0) returns when the thread has ended, or after
\* one second: a worker inside route_message, where sends and callbacks take
\* the time they take, may not have ended by then
JoinReturns(w) == rt_wk[w] = "dead" \/ rt_wk[w] \in {"l350", "l362"}

\* MIDIRouter.stop, lines 423-426
RT_stop_424 ==
    /\ rt_ctl = "l424"
    /\ JoinReturns(rt_thread)
    /\ rt_ctl' = "idle"
    /\ UNCHANGED << rt_running, rt_thread, rt_ports, rt_connections,
                    rt_message_callbacks, rt_queue, rt_accepted, rt_wk_vars,
                    rt_ctl_port, rt_mutated, rt_before, rt_delivered,
                    rt_stat_vars >>

\* time passes
RT_Tick(d) ==
    /\ rt_time + d <= MaxStatTime
    /\ rt_time' = rt_time + d
    /\ UNCHANGED << rt_running, rt_thread, rt_ports, rt_connections,
                    rt_message_callbacks, rt_queue, rt_accepted, rt_wk_vars,
                    rt_ctl, rt_ctl_port, rt_mutated, rt_before, rt_delivered,
                    rt_total_messages_processed, rt_messages_per_second,
                    rt_last_stats_update >>

\* _routing_loop, lines 387-394, and route_message up to its `for` (lines
\* 347-350): the thread ends when self.running is false; else it takes a
\* message off the queue, counts it, and the `for` takes an iterator of
\* self.connections; on queue.Empty it goes on to line 397
RT_loop_387(w) ==
    /\ rt_wk[w] = "l387"
    /\ IF ~rt_running
       THEN /\ rt_wk' = [rt_wk EXCEPT ![w] = "dead"]
            /\ UNCHANGED << rt_queue, rt_wk_message, rt_wk_seq, rt_log,
                            rt_mutated, rt_total_messages_processed >>
       ELSE IF rt_queue /= << >>
       THEN /\ rt_wk_message' = [rt_wk_message EXCEPT ![w] = << Head(rt_queue) >>]
            /\ rt_wk_seq' = [rt_wk_seq EXCEPT
                                ![w] = rt_accepted - Len(rt_queue) + 1]
            /\ rt_queue' = Tail(rt_queue)
            /\ rt_total_messages_processed' = rt_total_messages_processed + 1
            /\ rt_wk' = [rt_wk EXCEPT ![w] = "l350"]
            /\ rt_log' = [rt_log EXCEPT ![w] = << >>]
            /\ rt_mutated' = [rt_mutated EXCEPT ![w] = FALSE]
       ELSE /\ rt_wk' = [rt_wk EXCEPT ![w] = "l397"]
            /\ UNCHANGED << rt_queue, rt_wk_message, rt_wk_seq, rt_log,
                            rt_mutated, rt_total_messages_processed >>
    /\ UNCHANGED << rt_running, rt_thread, rt_ports, rt_connections,
                    rt_message_callbacks, rt_accepted, rt_wk_same, rt_wk_old,
                    rt_wk_idx, rt_wk_cb, rt_cb_start, rt_invoked, rt_ctl,
                    rt_ctl_port, rt_before, rt_delivered, rt_time,
                    rt_messages_per_second, rt_last_stats_update >>

\* MIDIPort.send_message: the port after the call
send_message(port) ==
    IF ~port.is_connected \/ port.is_input THEN port
    ELSE [port EXCEPT !.message_count = @ + 1]

\* route_message, lines 350-362: one turn of the `for` up to the `for` over
\* the callbacks, which ends at once when there is none; or the end of the
\* `for`
RT_route_350(w) ==
    /\ rt_wk[w] = "l350"
    /\ LET list == IF rt_wk_same[w] THEN Refs(rt_connections, rt_wk_idx[w])
                   ELSE rt_wk_old[w]
       IN  IF list = << >>
           THEN /\ rt_wk' = [rt_wk EXCEPT ![w] = "l397"]
                /\ rt_wk_idx' = [rt_wk_idx EXCEPT ![w] = 0]
                /\ rt_wk_same' = [rt_wk_same EXCEPT ![w] = TRUE]
                /\ UNCHANGED << rt_ports, rt_log, rt_wk_old, rt_delivered,
                                rt_cb_start >>
           ELSE LET entry == Head(list)
                    output_port ==
                        IF entry.ref /= 0
                        THEN rt_connections[entry.ref].output_port
                        ELSE entry.obj[1].output_port
                    processed ==
                        IF entry.ref /= 0
                        THEN Processed(rt_connections[entry.ref],
                                       rt_wk_message[w][1][1],
                                       rt_wk_message[w][1][2])
                        ELSE entry.obj[1].processed
                    forwards ==
                        processed /= << >> /\ output_port \in DOMAIN rt_ports
                    notifies == forwards /\ rt_message_callbacks /= << >>
                IN  /\ rt_wk_idx' = [rt_wk_idx EXCEPT ![w] = @ + 1]
                    /\ rt_wk_old' =
                           IF rt_wk_same[w] THEN rt_wk_old
                           ELSE [rt_wk_old EXCEPT ![w] = Tail(list)]
                    /\ rt_ports' =
                           IF forwards
                           THEN [rt_ports EXCEPT ![output_port] =
                                    send_message(@)]
                           ELSE rt_ports
                    /\ rt_log' =
                           IF forwards
                           THEN [rt_log EXCEPT ![w] =
                                    Append(@, [idx |-> rt_wk_idx[w] + 1,
                                               output_port |-> output_port,
                                               message |-> processed[1]])]
                           ELSE rt_log
                    /\ rt_delivered' =
                           IF forwards THEN Max(rt_delivered, rt_wk_seq[w])
                           ELSE rt_delivered
                    /\ rt_wk' = IF notifies THEN [rt_wk EXCEPT ![w] = "l362"]
                                ELSE rt_wk
                    /\ rt_cb_start' =
                           IF notifies
                           THEN [rt_cb_start EXCEPT ![w] = rt_message_callbacks]
                           ELSE rt_cb_start
                    /\ UNCHANGED rt_wk_same
    /\ UNCHANGED << rt_running, rt_thread, rt_connections,
                    rt_message_callbacks, rt_queue, rt_accepted, rt_wk_message,
                    rt_wk_cb, rt_wk_seq, rt_invoked, rt_ctl, rt_ctl_port,
                    rt_mutated, rt_before, rt_stat_vars >>

\* a callback raises or returns; route_message catches what it raises
\* (lines 363-366) and goes on with the next one
CallbackRaises(callback) == callback \in RaisingCallbacks

\* route_message, lines 362-366: one turn of the `for` over
\* self.message_callbacks, or its end
RT_route_362(w) ==
    /\ rt_wk[w] = "l362"
    /\ IF rt_wk_cb[w] >= Len(rt_message_callbacks)
       THEN /\ rt_wk' = [rt_wk EXCEPT ![w] = "l350"]
            /\ rt_wk_cb' = [rt_wk_cb EXCEPT ![w] = 0]
            /\ rt_invoked' = [rt_invoked EXCEPT ![w] = << >>]
            /\ rt_cb_start' = [rt_cb_start EXCEPT ![w] = << >>]
       ELSE LET forward == rt_log[w][Len(rt_log[w])]
                callback == rt_message_callbacks[rt_wk_cb[w] + 1]
            IN  /\ rt_invoked' =
                       [rt_invoked EXCEPT ![w] =
                           Append(@, [callback |-> callback,
                                      message |-> forward.message,
                                      output_port |-> forward.output_port,
                                      raised |-> CallbackRaises(callback)])]
                /\ rt_wk_cb' = [rt_wk_cb EXCEPT ![w] = @ + 1]
                /\ UNCHANGED << rt_wk, rt_cb_start >>
    /\ UNCHANGED << rt_running, rt_thread, rt_ports, rt_connections,
                    rt_message_callbacks, rt_queue, rt_accepted, rt_wk_message,
                    rt_wk_same, rt_wk_old, rt_wk_idx, rt_log, rt_wk_seq,
                    rt_ctl, rt_ctl_port, rt_mutated, rt_before, rt_delivered,
                    rt_stat_vars >>

\* _update_statistics, line 378: the window has elapsed
StatsDue_Always(time_diff) == TRUE
StatsDue(time_diff) == time_diff >= 1000

\* _routing_loop, line 397: _update_statistics, and back to the `while`
RT_loop_397(w) ==
    /\ rt_wk[w] = "l397"
    /\ LET time_diff == rt_time - rt_last_stats_update
       IN  IF StatsDue(time_diff)
           THEN /\ rt_messages_per_second' =
                       Frac(rt_total_messages_processed * 1000, time_diff)
                /\ rt_total_messages_processed' = 0
                /\ rt_last_stats_update' = rt_time
           ELSE UNCHANGED << rt_messages_per_second,
                             rt_total_messages_processed,
                             rt_last_stats_update >>
    /\ rt_wk' = [rt_wk EXCEPT ![w] = "l387"]
    /\ rt_wk_message' = [rt_wk_message EXCEPT ![w] = << >>]
    /\ rt_wk_seq' = [rt_wk_seq EXCEPT ![w] = 0]
    /\ rt_log' = [rt_log EXCEPT ![w] = << >>]
    /\ rt_mutated' = [rt_mutated EXCEPT ![w] = FALSE]
    /\ UNCHANGED << rt_running, rt_thread, rt_ports, rt_connections,
                    rt_message_callbacks, rt_queue, rt_accepted, rt_wk_same,
                    rt_wk_old, rt_wk_idx, rt_wk_cb, rt_cb_start, rt_invoked,
                    rt_ctl, rt_ctl_port, rt_before, rt_delivered, rt_time >>

(***************************************************************************)
(*                 CLOCK GENERATOR: FAN-OUT TO THE DEVICES                 *)
(*                                                                         *)
(* send_to_all_devices, one turn of its `for` at a time, against           *)
(* add_device and remove_device called from a control thread.  Every       *)
(* device of the list is connected (add_device, line 82).                  *)
(***************************************************************************)
VARIABLES
    fo_devices,   \* self.devices: the port ids, in list order
    fo_message,   \* the message of the send_to_all_devices in progress, 0
                  \* when there is none
    fo_idx,       \* the index of the list iterator of line 105
    fo_start,     \* history: self.devices when the `for` began
    fo_sends      \* history: the device.send_message calls of this
                  \* send_to_all_devices, [to, ok], in order

fo_vars == << fo_devices, fo_message, fo_idx, fo_start, fo_sends >>

\* at most MaxFanDevices devices are registered
MaxFanDevices == 2
\* the devices on which a send fails
FailingDevices == {"usb_roland_1"}
\* the messages the generator emits
FanMessages == {MIDI_CLOCK, MIDI_START, MIDI_STOP, MIDI_ACTIVE_SENSING}

\* the elements of a list
Elements(list) == {list[k] : k \in 1..Len(list)}

FO_Init ==
    /\ fo_devices = << >>
    /\ fo_message = 0
    /\ fo_idx = 0
    /\ fo_start = << >>
    /\ fo_sends = << >>

\* MIDIClockGenerator.add_device, with a port id not yet in the list
FO_add_device(port_id) ==
    /\ Len(fo_devices) < MaxFanDevices
    /\ port_id \notin Elements(fo_devices)
    /\ fo_devices' = Append(fo_devices, port_id)
    /\ UNCHANGED << fo_message, fo_idx, fo_start, fo_sends >>

\* MIDIClockGenerator.remove_device: del self.devices[i], in place
FO_remove_device(port_id) ==
    /\ fo_devices' = IF port_id \in Elements(fo_devices)
                     THEN RemoveFirst(fo_devices, port_id)
                     ELSE fo_devices
    /\ UNCHANGED << fo_message, fo_idx, fo_start, fo_sends >>

\* MIDIDevice.send_message: True, or False when the send raised
DeviceSends(port_id) == port_id \notin FailingDevices

\* send_to_all_devices, line 105: the `for` takes an iterator of self.devices
FO_send_105(message) ==
    /\ fo_message = 0
    /\ fo_message' = message
    /\ fo_idx' = 0
    /\ fo_start' = fo_devices
    /\ fo_sends' = << >>
    /\ UNCHANGED fo_devices

\* send_to_all_devices, lines 105-107: one turn of the `for`, or its end
FO_send_106 ==
    /\ fo_message /= 0
    /\ IF fo_idx >= Len(fo_devices)
       THEN /\ fo_message' = 0
            /\ UNCHANGED << fo_idx, fo_sends >>
       ELSE LET device == fo_devices[fo_idx + 1]
            IN  /\ fo_sends' = Append(fo_sends, [to |-> device,
                                                 ok |-> DeviceSends(device)])
                /\ fo_idx' = fo_idx + 1
                /\ UNCHANGED fo_message
    /\ UNCHANGED << fo_devices, fo_start >>

(***************************************************************************)
(*                 TIMING ENGINE: THE SUBSCRIBERS                          *)
(*                                                                         *)
(* self.callbacks is a dict: sb_callbacks is its entry array in insertion  *)
(* order, where a deleted key leaves an empty slot.  The iterator of       *)
(* `for callback in self.callbacks.values()` walks that array; it raises   *)
(* RuntimeError when the dict's size is not the one it started with, or    *)
(* when it finds more entries than that.                                   *)
(***************************************************************************)
VARIABLES
    sb_callbacks, \* self.callbacks: the names, "" for a deleted entry
    sb_pc,        \* update thread: "idle", or "l159" inside the `for`
    sb_pos,       \* the iterator's position in the entry array
    sb_used,      \* the dict's size when the iterator was made
    sb_len,       \* the entries the iterator still expects
    sb_start,     \* history: the names registered when the `for` began
    sb_invoked,   \* history: the callbacks invoked in this cycle, in order
    sb_raised     \* history: the cycle ended in the except of _timing_loop

sb_vars == << sb_callbacks, sb_pc, sb_pos, sb_used, sb_len, sb_start,
              sb_invoked, sb_raised >>

\* the entry array holds at most MaxEntries entries: the dict is never
\* resized
MaxEntries == 3
SubscriberNames == {"system", "display"}
\* the subscribers that raise
RaisingSubscribers == {"display"}

\* the keys of the dict
Registered(entries) == {entries[k] : k \in 1..Len(entries)} \ {""}

SB_Init ==
    /\ sb_callbacks = << >>
    /\ sb_pc = "idle"
    /\ sb_pos = 0
    /\ sb_used = 0
    /\ sb_len = 0
    /\ sb_start = {}
    /\ sb_invoked = << >>
    /\ sb_raised = FALSE

\* TimingEngine.add_callback: self.callbacks[name] = callback; a name that
\* is registered keeps its entry
SB_add_callback(name) ==
    /\ IF name \in Registered(sb_callbacks)
       THEN UNCHANGED sb_callbacks
       ELSE /\ Len(sb_callbacks) < MaxEntries
            /\ sb_callbacks' = Append(sb_callbacks, name)
    /\ UNCHANGED << sb_pc, sb_pos, sb_used, sb_len, sb_start, sb_invoked,
                    sb_raised >>

\* TimingEngine.remove_callback
SB_remove_callback(name) ==
    /\ sb_callbacks' = [k \in 1..Len(sb_callbacks) |->
                           IF sb_callbacks[k] = name THEN ""
                           ELSE sb_callbacks[k]]
    /\ UNCHANGED << sb_pc, sb_pos, sb_used, sb_len, sb_start, sb_invoked,
                    sb_raised >>

\* _update_timing, line 159: the `for` takes an iterator of the values
SB_update_159 ==
    /\ sb_pc = "idle"
    /\ sb_pc' = "l159"
    /\ sb_pos' = 0
    /\ sb_used' = Cardinality(Registered(sb_callbacks))
    /\ sb_len' = Cardinality(Registered(sb_callbacks))
    /\ sb_start' = Registered(sb_callbacks)
    /\ sb_invoked' = << >>
    /\ sb_raised' = FALSE
    /\ UNCHANGED sb_callbacks

\* a subscriber raises or returns; _update_timing catches what it raises
\* (lines 162-163)
SubscriberRaises(name) == name \in RaisingSubscribers

\* _update_timing, lines 159-163: one turn of the `for`, or its end; a
\* RuntimeError of the iterator leaves _update_timing and is caught in
\* _timing_loop (lines 174-175), which goes on with the next cycle
SB_update_160 ==
    /\ sb_pc = "l159"
    /\ LET rest == {k \in (sb_pos + 1)..Len(sb_callbacks) :
                       sb_callbacks[k] /= ""}
       IN  IF Cardinality(Registered(sb_callbacks)) /= sb_used
           THEN /\ sb_pc' = "idle"
                /\ sb_raised' = TRUE
                /\ UNCHANGED << sb_pos, sb_len, sb_invoked >>
           ELSE IF rest = {}
           THEN /\ sb_pc' = "idle"
                /\ UNCHANGED << sb_pos, sb_len, sb_invoked, sb_raised >>
           ELSE IF sb_len = 0
           THEN /\ sb_pc' = "idle"
                /\ sb_raised' = TRUE
                /\ UNCHANGED << sb_pos, sb_len, sb_invoked >>
           ELSE LET i == CHOOSE k \in rest : \A j \in rest : k <= j
                IN  /\ sb_invoked' =
                           Append(sb_invoked,
                                  [callback |-> sb_callbacks[i],
                                   raised |->
                                       SubscriberRaises(sb_callbacks[i])])
                    /\ sb_pos' = i
                    /\ sb_len' = sb_len - 1
                    /\ UNCHANGED << sb_pc, sb_raised >>
    /\ UNCHANGED << sb_callbacks, sb_used, sb_start >>

(***************************************************************************)
(*              MIDIConnection.process_message: THE TRANSFORMS             *)
(*                                                                         *)
(* Two connections from the same source port, to which transforms are      *)
(* attached one at a time and which then process the same message object.  *)
(* transform writes to the copy it makes and never to its argument, so     *)
(* the message object keeps its fields: pm_message has no assignment.      *)
(***************************************************************************)
VARIABLES
    pm_transforms,  \* connection.transforms of either connection
    pm_message,     \* the message routed
    pm_results      \* << >>, or what process_message returned on either
                    \* connection

pm_vars == << pm_transforms, pm_message, pm_results >>

\* at most MaxTransforms transforms are attached to a connection
MaxTransforms == 2
\* the parallel connections
ChainConnections == {1, 2}
\* transforms whose order matters: the clamp of a transposition, and
\* channel maps that feed one another
ChainTransforms ==
    {MIDITransform(TRUE, << >>, 127, << >>),
     MIDITransform(TRUE, << >>, -70, << >>),
     MIDITransform(TRUE, << [c \in {0} |-> 5] >>, 0, << >>),
     MIDITransform(TRUE, << [c \in {5} |-> 1] >>, 0, << >>)}
ChainMessages == {MIDIMessage(NOTE_ON, 0, 60, 100)}

PM_Idle ==
    /\ pm_transforms = [k \in ChainConnections |-> << >>]
    /\ pm_message = MIDIMessage(NOTE_ON, 0, 60, 100)
    /\ pm_results = << >>

\* add_transform_to_connection, line 340: conn.transforms.append(transform)
PM_add_transform(k, t) ==
    /\ Len(pm_transforms[k]) < MaxTransforms
    /\ pm_transforms' = [pm_transforms EXCEPT ![k] = Append(@, t)]
    /\ pm_results' = << >>
    /\ UNCHANGED pm_message

\* route_message, line 353, on either connection: process_message
PM_process_message ==
    /\ pm_results = << >>
    /\ pm_results' =
           << [k \in ChainConnections |->
                  process_message(
                      [MIDIConnection("input_1", "output_1")
                          EXCEPT !.transforms = pm_transforms[k]],
                      pm_message)] >>
    /\ UNCHANGED << pm_transforms, pm_message >>

(***************************************************************************)
(*                        MIDIFilter.should_pass                           *)
(***************************************************************************)
VARIABLES
    fl_filter,    \* the MIDIFilter should_pass is called on
    fl_message,   \* the message it is called with
    fl_result     \* << >> before the call, << the value returned >> after

fl_vars == << fl_filter, fl_message, fl_result >>

\* the dimensions of the filters: unset, or set (a channel list may be empty)
ChannelFilterInputs == {<< >>, << {} >>, << {0} >>}
TypeFilterInputs == {<< >>, << {NOTE_ON} >>, << {CONTROL_CHANGE} >>}
VelocityRangeInputs == {<< >>, << << 64, 127 >> >>}
NoteRangeInputs == {<< >>, << << 60, 84 >> >>}
\* the messages: data bytes on and off the edges of the ranges
FilterMessages ==
    {MIDIMessage(ty, ch, d1, d2) :
        ty \in {NOTE_ON, NOTE_OFF, CONTROL_CHANGE}, ch \in {0, 1},
        d1 \in {59, 60, 84, 85}, d2 \in {63, 64, 127}}

FL_Idle ==
    /\ fl_filter = MIDIFilter(TRUE, << >>, << >>, << >>, << >>)
    /\ fl_message = MIDIMessage(NOTE_ON, 0, 60, 100)
    /\ fl_result = << >>

\* every filter and message a call is made with
FL_Init ==
    /\ fl_filter \in
           {MIDIFilter(e, cf, tf, vr, nr) :
               e \in BOOLEAN, cf \in ChannelFilterInputs,
               tf \in TypeFilterInputs, vr \in VelocityRangeInputs,
               nr \in NoteRangeInputs}
    /\ fl_message \in FilterMessages
    /\ fl_result = << >>

\* the call filter_obj.should_pass(message)
FL_should_pass ==
    /\ fl_result = << >>
    /\ fl_result' = << should_pass(fl_filter, fl_message) >>
    /\ UNCHANGED << fl_filter, fl_message >>

(***************************************************************************)
(*               CLOCK GENERATOR: THE SCHEDULE OF THE PULSES               *)
(*                                                                         *)
(* _clock_loop during one playback at a constant tempo, an iteration at a  *)
(* time: each one reads the clock once and sleeps, so that the clock is    *)
(* read every dr_tick milliseconds.  Times are milliseconds since the      *)
(* start_playback call.                                                    *)
(***************************************************************************)
VARIABLES
    dr_tick,             \* the time from one iteration to the next
    dr_time,             \* time.time()
    dr_last_clock_time,  \* self.last_clock_time
    dr_pulses,           \* history: the pulses emitted since Start
    dr_emitted           \* history: when the last of them was emitted

dr_vars == << dr_tick, dr_time, dr_last_clock_time, dr_pulses, dr_emitted >>

\* the loop ticks: the sleep of line 161, or a loaded machine
DriftTicks == {1, 15}
\* the constant tempo
DriftBpm == 120
\* the playback is followed for MaxDriftPulses pulses
MaxDriftPulses == 8

\* no playback is followed
DR_Idle ==
    /\ dr_tick = 1
    /\ dr_time = 0
    /\ dr_last_clock_time = 0
    /\ dr_pulses = 0
    /\ dr_emitted = 0

\* start_playback has just run: last_clock_time = time.time() (line 114)
DR_Init ==
    /\ dr_tick \in DriftTicks
    /\ dr_time = 0
    /\ dr_last_clock_time = 0
    /\ dr_pulses = 0
    /\ dr_emitted = 0

\* _clock_loop, lines 147-161, while playing: a pulse is sent when
\* current_time - last_clock_time >= clock_interval, and then
\* last_clock_time = current_time; time.sleep
DR_loop_147 ==
    /\ dr_pulses < MaxDriftPulses
    /\ LET current_time == dr_time
       IN  IF MsAtLeast(current_time - dr_last_clock_time,
                        ClockInterval(DriftBpm))
           THEN /\ dr_pulses' = dr_pulses + 1
                /\ dr_emitted' = current_time
                /\ dr_last_clock_time' = current_time
           ELSE UNCHANGED << dr_pulses, dr_emitted, dr_last_clock_time >>
    /\ dr_time' = dr_time + dr_tick
    /\ UNCHANGED dr_tick

(***************************************************************************)
(*               ROUTING WHILE THE CONNECTION LIST CHANGES                 *)
(*                                                                         *)
(* The router's actions, with a record of the connection list as each      *)
(* routing found it and of the connections removed since.                  *)
(***************************************************************************)
VARIABLES
    tp_start,    \* history, per worker: self.connections when route_message
                 \* was called with the message in hand
    tp_removed   \* history, per worker: the (input_port, output_port) pairs
                 \* remove_connection deleted since

tp_vars == << tp_start, tp_removed >>

\* one input port and two output ports
TopologyInputs == {"input_1"}
TopologyOutputs == {"output_1", "output_2"}

TP_Init ==
    /\ tp_start = [w \in Workers |-> << >>]
    /\ tp_removed = [w \in Workers |-> {}]

\* _routing_loop, lines 387-394: route_message is called with the message
\* taken off the queue
TP_loop_387(w) ==
    /\ RT_loop_387(w)
    /\ tp_start' = [tp_start EXCEPT
                       ![w] = IF rt_wk'[w] = "l350" THEN rt_connections
                              ELSE << >>]
    /\ tp_removed' = [tp_removed EXCEPT ![w] = {}]

\* remove_connection, lines 320-324
TP_remove_connection(input_port, output_port) ==
    /\ RT_remove_connection(input_port, output_port)
    /\ tp_removed' =
           [w \in Workers |->
               IF rt_wk_message[w] /= << >>
                      /\ FirstConnection(input_port, output_port) /= 0
               THEN tp_removed[w] \cup {<< input_port, output_port >>}
               ELSE tp_removed[w]]
    /\ UNCHANGED tp_start

\* _routing_loop, line 397: the message in hand is done with
TP_loop_397(w) ==
    /\ RT_loop_397(w)
    /\ tp_start' = [tp_start EXCEPT ![w] = << >>]
    /\ tp_removed' = [tp_removed EXCEPT ![w] = {}]

(***************************************************************************)
(*                    MR. CONDUCTOR: THE SYSTEM TEMPO                      *)
(*                                                                         *)
(* MrConductor and SceneManager hold the timing engine and the clock       *)
(* generator of get_timing_engine() and get_midi_clock() and pass each     *)
(* tempo to both.                                                          *)
(***************************************************************************)
\* MrConductor.set_bpm, lines 248-250: timing_engine.set_bpm(bpm), then
\* midi_clock.set_bpm(bpm) up to its line 131
MC_set_bpm(bpm) ==
    /\ TE_set_bpm(bpm)
    /\ CG_set_bpm_131(bpm)

\* SceneManager.load_scene, lines 79-83, for a scene that create_scene stored
\* with this bpm: timing_engine.set_bpm(scene.bpm), then
\* midi_clock.set_bpm(scene.bpm) up to its line 131
MC_load_scene(bpm) ==
    /\ te_ctl = "idle"
    /\ cg_ctl = "idle"
    /\ TE_set_bpm(bpm)
    /\ CG_set_bpm_131(bpm)

(***************************************************************************)
(*                           SPECIFICATIONS                                *)
(***************************************************************************)
vars == << te_vars, cg_vars, pf_vars, rt_vars, fo_vars, sb_vars, pm_vars,
           fl_vars, dr_vars, tp_vars >>

\* the state after construction; no call of a pure function is pending
Init ==
    /\ TE_Init /\ CG_Init /\ RT_Init /\ TF_Idle /\ BT_Idle /\ FO_Init
    /\ SB_Init /\ PM_Idle /\ FL_Idle /\ DR_Idle /\ TP_Init

NextTiming ==
    \/ TE_Tick /\ UNCHANGED << cg_vars, pf_vars, rt_vars, fo_vars, sb_vars,
                               pm_vars, fl_vars, dr_vars, tp_vars >>
    \/ (\E bpm \in BpmInputs : TE_set_bpm(bpm))
           /\ UNCHANGED << cg_vars, pf_vars, rt_vars, fo_vars, sb_vars,
                           pm_vars, fl_vars, dr_vars, tp_vars >>
    \/ TE_start_playback_120 /\ UNCHANGED << cg_vars, pf_vars, rt_vars,
                                             fo_vars, sb_vars, pm_vars,
                                             fl_vars, dr_vars, tp_vars >>
    \/ TE_start_playback_121 /\ UNCHANGED << cg_vars, pf_vars, rt_vars,
                                             fo_vars, sb_vars, pm_vars,
                                             fl_vars, dr_vars, tp_vars >>
    \/ TE_stop_playback /\ UNCHANGED << cg_vars, pf_vars, rt_vars, fo_vars,
                                        sb_vars, pm_vars, fl_vars, dr_vars,
                                        tp_vars >>
    \/ TE_start /\ UNCHANGED << cg_vars, pf_vars, rt_vars, fo_vars, sb_vars,
                                pm_vars, fl_vars, dr_vars, tp_vars >>
    \/ TE_loop_169 /\ UNCHANGED << cg_vars, pf_vars, rt_vars, fo_vars,
                                   sb_vars, pm_vars, fl_vars, dr_vars,
                                   tp_vars >>
    \/ TE_update_140 /\ UNCHANGED << cg_vars, pf_vars, rt_vars, fo_vars,
                                     sb_vars, pm_vars, fl_vars, dr_vars,
                                     tp_vars >>
    \/ TE_update_142 /\ UNCHANGED << cg_vars, pf_vars, rt_vars, fo_vars,
                                     sb_vars, pm_vars, fl_vars, dr_vars,
                                     tp_vars >>
    \/ TE_update_144 /\ UNCHANGED << cg_vars, pf_vars, rt_vars, fo_vars,
                                     sb_vars, pm_vars, fl_vars, dr_vars,
                                     tp_vars >>
    \/ TE_update_154 /\ UNCHANGED << cg_vars, pf_vars, rt_vars, fo_vars,
                                     sb_vars, pm_vars, fl_vars, dr_vars,
                                     tp_vars >>

SpecTiming == Init /\ [][NextTiming]_vars

NextClock ==
    \/ (\E d \in ClockTicks : CG_Tick(d))
           /\ UNCHANGED << te_vars, pf_vars, rt_vars, fo_vars, sb_vars,
                           pm_vars, fl_vars, dr_vars, tp_vars >>
    \/ (\E port_id \in DeviceIds : CG_add_device(port_id))
           /\ UNCHANGED << te_vars, pf_vars, rt_vars, fo_vars, sb_vars,
                           pm_vars, fl_vars, dr_vars, tp_vars >>
    \/ (\E port_id \in DeviceIds : CG_remove_device(port_id))
           /\ UNCHANGED << te_vars, pf_vars, rt_vars, fo_vars, sb_vars,
                           pm_vars, fl_vars, dr_vars, tp_vars >>
    \/ CG_start /\ UNCHANGED << te_vars, pf_vars, rt_vars, fo_vars, sb_vars,
                                pm_vars, fl_vars, dr_vars, tp_vars >>
    \/ CG_start_playback_111 /\ UNCHANGED << te_vars, pf_vars, rt_vars,
                                             fo_vars, sb_vars, pm_vars,
                                             fl_vars, dr_vars, tp_vars >>
    \/ CG_start_playback_113 /\ UNCHANGED << te_vars, pf_vars, rt_vars,
                                             fo_vars, sb_vars, pm_vars,
                                             fl_vars, dr_vars, tp_vars >>
    \/ CG_start_playback_114 /\ UNCHANGED << te_vars, pf_vars, rt_vars,
                                             fo_vars, sb_vars, pm_vars,
                                             fl_vars, dr_vars, tp_vars >>
    \/ CG_start_playback_117 /\ UNCHANGED << te_vars, pf_vars, rt_vars,
                                             fo_vars, sb_vars, pm_vars,
                                             fl_vars, dr_vars, tp_vars >>
    \/ CG_stop_playback_122 /\ UNCHANGED << te_vars, pf_vars, rt_vars,
                                            fo_vars, sb_vars, pm_vars,
                                            fl_vars, dr_vars, tp_vars >>
    \/ CG_stop_playback_126 /\ UNCHANGED << te_vars, pf_vars, rt_vars,
                                            fo_vars, sb_vars, pm_vars,
                                            fl_vars, dr_vars, tp_vars >>
    \/ (\E bpm \in ClockBpmInputs : CG_set_bpm_131(bpm))
           /\ UNCHANGED << te_vars, pf_vars, rt_vars, fo_vars, sb_vars,
                           pm_vars, fl_vars, dr_vars, tp_vars >>
    \/ CG_set_bpm_74 /\ UNCHANGED << te_vars, pf_vars, rt_vars, fo_vars,
                                     sb_vars, pm_vars, fl_vars, dr_vars,
                                     tp_vars >>
    \/ CG_loop_145 /\ UNCHANGED << te_vars, pf_vars, rt_vars, fo_vars,
                                   sb_vars, pm_vars, fl_vars, dr_vars,
                                   tp_vars >>
    \/ CG_loop_147 /\ UNCHANGED << te_vars, pf_vars, rt_vars, fo_vars,
                                   sb_vars, pm_vars, fl_vars, dr_vars,
                                   tp_vars >>
    \/ CG_loop_149 /\ UNCHANGED << te_vars, pf_vars, rt_vars, fo_vars,
                                   sb_vars, pm_vars, fl_vars, dr_vars,
                                   tp_vars >>
    \/ CG_pulse_137 /\ UNCHANGED << te_vars, pf_vars, rt_vars, fo_vars,
                                    sb_vars, pm_vars, fl_vars, dr_vars,
                                    tp_vars >>
    \/ CG_pulse_138 /\ UNCHANGED << te_vars, pf_vars, rt_vars, fo_vars,
                                    sb_vars, pm_vars, fl_vars, dr_vars,
                                    tp_vars >>
    \/ CG_pulse_139 /\ UNCHANGED << te_vars, pf_vars, rt_vars, fo_vars,
                                    sb_vars, pm_vars, fl_vars, dr_vars,
                                    tp_vars >>
    \/ CG_pulse_139w /\ UNCHANGED << te_vars, pf_vars, rt_vars, fo_vars,
                                     sb_vars, pm_vars, fl_vars, dr_vars,
                                     tp_vars >>
    \/ CG_loop_153 /\ UNCHANGED << te_vars, pf_vars, rt_vars, fo_vars,
                                   sb_vars, pm_vars, fl_vars, dr_vars,
                                   tp_vars >>
    \/ CG_loop_157 /\ UNCHANGED << te_vars, pf_vars, rt_vars, fo_vars,
                                   sb_vars, pm_vars, fl_vars, dr_vars,
                                   tp_vars >>
    \/ CG_loop_158 /\ UNCHANGED << te_vars, pf_vars, rt_vars, fo_vars,
                                   sb_vars, pm_vars, fl_vars, dr_vars,
                                   tp_vars >>
    \/ CG_loop_161 /\ UNCHANGED << te_vars, pf_vars, rt_vars, fo_vars,
                                   sb_vars, pm_vars, fl_vars, dr_vars,
                                   tp_vars >>

SpecClock == Init /\ [][NextClock]_vars

NextRouter ==
    \/ (\E port_id \in PortIds :
            RT_add_port(port_id, port_id \in InputPortIds))
           /\ UNCHANGED << te_vars, cg_vars, pf_vars, fo_vars, sb_vars,
                           pm_vars, fl_vars, dr_vars, tp_vars >>
    \/ (\E port_id \in PortIds : RT_remove_port_291(port_id))
           /\ UNCHANGED << te_vars, cg_vars, pf_vars, fo_vars, sb_vars,
                           pm_vars, fl_vars, dr_vars, tp_vars >>
    \/ RT_remove_port_298 /\ UNCHANGED << te_vars, cg_vars, pf_vars, fo_vars,
                                          sb_vars, pm_vars, fl_vars, dr_vars,
                                          tp_vars >>
    \/ (\E input_port \in PortIds, output_port \in PortIds :
            RT_add_connection(input_port, output_port))
           /\ UNCHANGED << te_vars, cg_vars, pf_vars, fo_vars, sb_vars,
                           pm_vars, fl_vars, dr_vars, tp_vars >>
    \/ (\E input_port \in PortIds, output_port \in PortIds :
            RT_remove_connection(input_port, output_port))
           /\ UNCHANGED << te_vars, cg_vars, pf_vars, fo_vars, sb_vars,
                           pm_vars, fl_vars, dr_vars, tp_vars >>
    \/ (\E input_port \in PortIds, output_port \in PortIds,
           filter_obj \in FilterInputs :
            RT_add_filter_to_connection(input_port, output_port, filter_obj))
           /\ UNCHANGED << te_vars, cg_vars, pf_vars, fo_vars, sb_vars,
                           pm_vars, fl_vars, dr_vars, tp_vars >>
    \/ (\E k \in 1..MaxConnections, enabled \in BOOLEAN :
            RT_set_enabled(k, enabled))
           /\ UNCHANGED << te_vars, cg_vars, pf_vars, fo_vars, sb_vars,
                           pm_vars, fl_vars, dr_vars, tp_vars >>
    \/ (\E port_id \in PortIds, message \in MessageInputs :
            RT_simulate_input_message(port_id, message))
           /\ UNCHANGED << te_vars, cg_vars, pf_vars, fo_vars, sb_vars,
                           pm_vars, fl_vars, dr_vars, tp_vars >>
    \/ RT_start /\ UNCHANGED << te_vars, cg_vars, pf_vars, fo_vars, sb_vars,
                                pm_vars, fl_vars, dr_vars, tp_vars >>
    \/ (\E w \in Workers : RT_loop_387(w))
           /\ UNCHANGED << te_vars, cg_vars, pf_vars, fo_vars, sb_vars,
                           pm_vars, fl_vars, dr_vars, tp_vars >>
    \/ (\E w \in Workers : RT_route_350(w))
           /\ UNCHANGED << te_vars, cg_vars, pf_vars, fo_vars, sb_vars,
                           pm_vars, fl_vars, dr_vars, tp_vars >>
    \/ (\E w \in Workers : RT_loop_397(w))
           /\ UNCHANGED << te_vars, cg_vars, pf_vars, fo_vars, sb_vars,
                           pm_vars, fl_vars, dr_vars, tp_vars >>

SpecRouter == Init /\ [][NextRouter]_vars

\* the router's statistics window: messages come in and time passes while
\* the worker runs; the connection table stays empty
NextStats ==
    \/ (\E d \in StatTicks : RT_Tick(d))
           /\ UNCHANGED << te_vars, cg_vars, pf_vars, fo_vars, sb_vars,
                           pm_vars, fl_vars, dr_vars, tp_vars >>
    \/ (\E port_id \in InputPortIds : RT_add_port(port_id, TRUE))
           /\ UNCHANGED << te_vars, cg_vars, pf_vars, fo_vars, sb_vars,
                           pm_vars, fl_vars, dr_vars, tp_vars >>
    \/ (\E port_id \in InputPortIds, message \in MessageInputs :
            RT_simulate_input_message(port_id, message))
           /\ UNCHANGED << te_vars, cg_vars, pf_vars, fo_vars, sb_vars,
                           pm_vars, fl_vars, dr_vars, tp_vars >>
    \/ RT_start /\ UNCHANGED << te_vars, cg_vars, pf_vars, fo_vars, sb_vars,
                                pm_vars, fl_vars, dr_vars, tp_vars >>
    \/ (\E w \in Workers : RT_loop_387(w))
           /\ UNCHANGED << te_vars, cg_vars, pf_vars, fo_vars, sb_vars,
                           pm_vars, fl_vars, dr_vars, tp_vars >>
    \/ (\E w \in Workers : RT_route_350(w))
           /\ UNCHANGED << te_vars, cg_vars, pf_vars, fo_vars, sb_vars,
                           pm_vars, fl_vars, dr_vars, tp_vars >>
    \/ (\E w \in Workers : RT_loop_397(w))
           /\ UNCHANGED << te_vars, cg_vars, pf_vars, fo_vars, sb_vars,
                           pm_vars, fl_vars, dr_vars, tp_vars >>

SpecStats == Init /\ [][NextStats]_vars

\* the router's start/stop lifecycle around messages in flight
NextLifecycle ==
    \/ (\E port_id \in PortIds :
            RT_add_port(port_id, port_id \in InputPortIds))
           /\ UNCHANGED << te_vars, cg_vars, pf_vars, fo_vars, sb_vars,
                           pm_vars, fl_vars, dr_vars, tp_vars >>
    \/ (\E input_port \in PortIds, output_port \in PortIds :
            RT_add_connection(input_port, output_port))
           /\ UNCHANGED << te_vars, cg_vars, pf_vars, fo_vars, sb_vars,
                           pm_vars, fl_vars, dr_vars, tp_vars >>
    \/ (\E port_id \in PortIds, message \in MessageInputs :
            RT_simulate_input_message(port_id, message))
           /\ UNCHANGED << te_vars, cg_vars, pf_vars, fo_vars, sb_vars,
                           pm_vars, fl_vars, dr_vars, tp_vars >>
    \/ RT_start /\ UNCHANGED << te_vars, cg_vars, pf_vars, fo_vars, sb_vars,
                                pm_vars, fl_vars, dr_vars, tp_vars >>
    \/ RT_stop_418 /\ UNCHANGED << te_vars, cg_vars, pf_vars, fo_vars,
                                   sb_vars, pm_vars, fl_vars, dr_vars,
                                   tp_vars >>
    \/ RT_stop_424 /\ UNCHANGED << te_vars, cg_vars, pf_vars, fo_vars,
                                   sb_vars, pm_vars, fl_vars, dr_vars,
                                   tp_vars >>
    \/ (\E w \in Workers : RT_loop_387(w))
           /\ UNCHANGED << te_vars, cg_vars, pf_vars, fo_vars, sb_vars,
                           pm_vars, fl_vars, dr_vars, tp_vars >>
    \/ (\E w \in Workers : RT_route_350(w))
           /\ UNCHANGED << te_vars, cg_vars, pf_vars, fo_vars, sb_vars,
                           pm_vars, fl_vars, dr_vars, tp_vars >>
    \/ (\E w \in Workers : RT_loop_397(w))
           /\ UNCHANGED << te_vars, cg_vars, pf_vars, fo_vars, sb_vars,
                           pm_vars, fl_vars, dr_vars, tp_vars >>

SpecLifecycle == Init /\ [][NextLifecycle]_vars

\* the router's observers: callbacks are registered and removed while the
\* worker routes
NextObservers ==
    \/ (\E port_id \in PortIds :
            RT_add_port(port_id, port_id \in InputPortIds))
           /\ UNCHANGED << te_vars, cg_vars, pf_vars, fo_vars, sb_vars,
                           pm_vars, fl_vars, dr_vars, tp_vars >>
    \/ (\E input_port \in PortIds, output_port \in PortIds :
            RT_add_connection(input_port, output_port))
           /\ UNCHANGED << te_vars, cg_vars, pf_vars, fo_vars, sb_vars,
                           pm_vars, fl_vars, dr_vars, tp_vars >>
    \/ (\E callback \in CallbackIds : RT_add_message_callback(callback))
           /\ UNCHANGED << te_vars, cg_vars, pf_vars, fo_vars, sb_vars,
                           pm_vars, fl_vars, dr_vars, tp_vars >>
    \/ (\E callback \in CallbackIds : RT_remove_message_callback(callback))
           /\ UNCHANGED << te_vars, cg_vars, pf_vars, fo_vars, sb_vars,
                           pm_vars, fl_vars, dr_vars, tp_vars >>
    \/ (\E port_id \in PortIds, message \in MessageInputs :
            RT_simulate_input_message(port_id, message))
           /\ UNCHANGED << te_vars, cg_vars, pf_vars, fo_vars, sb_vars,
                           pm_vars, fl_vars, dr_vars, tp_vars >>
    \/ RT_start /\ UNCHANGED << te_vars, cg_vars, pf_vars, fo_vars, sb_vars,
                                pm_vars, fl_vars, dr_vars, tp_vars >>
    \/ (\E w \in Workers : RT_loop_387(w))
           /\ UNCHANGED << te_vars, cg_vars, pf_vars, fo_vars, sb_vars,
                           pm_vars, fl_vars, dr_vars, tp_vars >>
    \/ (\E w \in Workers : RT_route_350(w))
           /\ UNCHANGED << te_vars, cg_vars, pf_vars, fo_vars, sb_vars,
                           pm_vars, fl_vars, dr_vars, tp_vars >>
    \/ (\E w \in Workers : RT_route_362(w))
           /\ UNCHANGED << te_vars, cg_vars, pf_vars, fo_vars, sb_vars,
                           pm_vars, fl_vars, dr_vars, tp_vars >>
    \/ (\E w \in Workers : RT_loop_397(w))
           /\ UNCHANGED << te_vars, cg_vars, pf_vars, fo_vars, sb_vars,
                           pm_vars, fl_vars, dr_vars, tp_vars >>

SpecObservers == Init /\ [][NextObservers]_vars

\* MIDITransform.transform on every transform and message of the input sets
InitTransform == TE_Init /\ CG_Init /\ RT_Init /\ TF_Init /\ BT_Idle
                     /\ FO_Init /\ SB_Init /\ PM_Idle /\ FL_Idle /\ DR_Idle /\ TP_Init

NextTransform == TF_transform /\ UNCHANGED << te_vars, cg_vars, rt_vars,
                                              fo_vars, sb_vars, pm_vars,
                                              fl_vars, dr_vars, tp_vars >>

SpecTransform == InitTransform /\ [][NextTransform]_vars

\* MIDIMessage.to_bytes on every message of the input sets
InitBytes == TE_Init /\ CG_Init /\ RT_Init /\ TF_Idle /\ BT_Init
                 /\ FO_Init /\ SB_Init /\ PM_Idle /\ FL_Idle /\ DR_Idle /\ TP_Init

NextBytes == BT_to_bytes /\ UNCHANGED << te_vars, cg_vars, rt_vars, fo_vars,
                                         sb_vars, pm_vars, fl_vars, dr_vars,
                                         tp_vars >>

SpecBytes == InitBytes /\ [][NextBytes]_vars

(***************************************************************************)

\* the clock generator's fan-out while devices are added and removed
NextFanOut ==
    \/ (\E port_id \in DeviceIds : FO_add_device(port_id))
           /\ UNCHANGED << te_vars, cg_vars, pf_vars, rt_vars, sb_vars,
                           pm_vars, fl_vars, dr_vars, tp_vars >>
    \/ (\E port_id \in DeviceIds : FO_remove_device(port_id))
           /\ UNCHANGED << te_vars, cg_vars, pf_vars, rt_vars, sb_vars,
                           pm_vars, fl_vars, dr_vars, tp_vars >>
    \/ (\E message \in FanMessages : FO_send_105(message))
           /\ UNCHANGED << te_vars, cg_vars, pf_vars, rt_vars, sb_vars,
                           pm_vars, fl_vars, dr_vars, tp_vars >>
    \/ FO_send_106
           /\ UNCHANGED << te_vars, cg_vars, pf_vars, rt_vars, sb_vars,
                           pm_vars, fl_vars, dr_vars, tp_vars >>

SpecFanOut == Init /\ [][NextFanOut]_vars

\* the timing engine's subscribers while callbacks are added and removed
NextSubscribers ==
    \/ (\E name \in SubscriberNames : SB_add_callback(name))
           /\ UNCHANGED << te_vars, cg_vars, pf_vars, rt_vars, fo_vars,
                           pm_vars, fl_vars, dr_vars, tp_vars >>
    \/ (\E name \in SubscriberNames : SB_remove_callback(name))
           /\ UNCHANGED << te_vars, cg_vars, pf_vars, rt_vars, fo_vars,
                           pm_vars, fl_vars, dr_vars, tp_vars >>
    \/ SB_update_159
           /\ UNCHANGED << te_vars, cg_vars, pf_vars, rt_vars, fo_vars,
                           pm_vars, fl_vars, dr_vars, tp_vars >>
    \/ SB_update_160
           /\ UNCHANGED << te_vars, cg_vars, pf_vars, rt_vars, fo_vars,
                           pm_vars, fl_vars, dr_vars, tp_vars >>

SpecSubscribers == Init /\ [][NextSubscribers]_vars

\* process_message on connections that transforms are attached to
InitChain ==
    /\ TE_Init /\ CG_Init /\ RT_Init /\ TF_Idle /\ BT_Idle /\ FO_Init
    /\ SB_Init /\ PM_Idle /\ FL_Idle /\ DR_Idle /\ TP_Init

NextChain ==
    \/ (\E k \in ChainConnections, t \in ChainTransforms :
            PM_add_transform(k, t))
           /\ UNCHANGED << te_vars, cg_vars, pf_vars, rt_vars, fo_vars,
                           sb_vars, fl_vars, dr_vars, tp_vars >>
    \/ PM_process_message
           /\ UNCHANGED << te_vars, cg_vars, pf_vars, rt_vars, fo_vars,
                           sb_vars, fl_vars, dr_vars, tp_vars >>

SpecChain == InitChain /\ [][NextChain]_vars

\* MIDIFilter.should_pass on every filter and message of the input sets
InitFilter ==
    /\ TE_Init /\ CG_Init /\ RT_Init /\ TF_Idle /\ BT_Idle /\ FO_Init
    /\ SB_Init /\ PM_Idle /\ FL_Init /\ DR_Idle /\ TP_Init

NextFilter ==
    FL_should_pass
           /\ UNCHANGED << te_vars, cg_vars, pf_vars, rt_vars, fo_vars,
                           sb_vars, pm_vars, dr_vars, tp_vars >>

SpecFilter == InitFilter /\ [][NextFilter]_vars

\* the clock loop through one playback at a constant tempo
InitDrift ==
    /\ TE_Init /\ CG_Init /\ RT_Init /\ TF_Idle /\ BT_Idle /\ FO_Init
    /\ SB_Init /\ PM_Idle /\ FL_Idle /\ DR_Init /\ TP_Init

NextDrift ==
    DR_loop_147
           /\ UNCHANGED << te_vars, cg_vars, pf_vars, rt_vars, fo_vars,
                           sb_vars, pm_vars, fl_vars, tp_vars >>

SpecDrift == InitDrift /\ [][NextDrift]_vars

\* deliveries to ports that are registered, and registered again
NextDelivery ==
    \/ (\E port_id \in {"input_1", "output_1"}, is_input \in BOOLEAN :
            RT_add_port(port_id, is_input))
           /\ UNCHANGED << te_vars, cg_vars, pf_vars, fo_vars, sb_vars,
                           pm_vars, fl_vars, dr_vars, tp_vars >>
    \/ (\E input_port \in PortIds, output_port \in PortIds :
            RT_add_connection(input_port, output_port))
           /\ UNCHANGED << te_vars, cg_vars, pf_vars, fo_vars, sb_vars,
                           pm_vars, fl_vars, dr_vars, tp_vars >>
    \/ (\E port_id \in PortIds, message \in MessageInputs :
            RT_simulate_input_message(port_id, message))
           /\ UNCHANGED << te_vars, cg_vars, pf_vars, fo_vars, sb_vars,
                           pm_vars, fl_vars, dr_vars, tp_vars >>
    \/ RT_start
           /\ UNCHANGED << te_vars, cg_vars, pf_vars, fo_vars, sb_vars,
                           pm_vars, fl_vars, dr_vars, tp_vars >>
    \/ (\E w \in Workers : RT_loop_387(w))
           /\ UNCHANGED << te_vars, cg_vars, pf_vars, fo_vars, sb_vars,
                           pm_vars, fl_vars, dr_vars, tp_vars >>
    \/ (\E w \in Workers : RT_route_350(w))
           /\ UNCHANGED << te_vars, cg_vars, pf_vars, fo_vars, sb_vars,
                           pm_vars, fl_vars, dr_vars, tp_vars >>
    \/ (\E w \in Workers : RT_loop_397(w))
           /\ UNCHANGED << te_vars, cg_vars, pf_vars, fo_vars, sb_vars,
                           pm_vars, fl_vars, dr_vars, tp_vars >>

SpecDelivery == Init /\ [][NextDelivery]_vars

\* the router while connections are added and removed under a message in
\* flight
NextTopology ==
    \/ (\E port_id \in TopologyInputs \cup TopologyOutputs :
            RT_add_port(port_id, port_id \in TopologyInputs))
           /\ UNCHANGED << te_vars, cg_vars, pf_vars, fo_vars, sb_vars,
                           pm_vars, fl_vars, dr_vars, tp_vars >>
    \/ (\E input_port \in TopologyInputs, output_port \in TopologyOutputs :
            RT_add_connection(input_port, output_port))
           /\ UNCHANGED << te_vars, cg_vars, pf_vars, fo_vars, sb_vars,
                           pm_vars, fl_vars, dr_vars, tp_vars >>
    \/ (\E input_port \in TopologyInputs, output_port \in TopologyOutputs :
            TP_remove_connection(input_port, output_port))
           /\ UNCHANGED << te_vars, cg_vars, pf_vars, fo_vars, sb_vars,
                           pm_vars, fl_vars, dr_vars >>
    \/ (\E port_id \in TopologyInputs, message \in MessageInputs :
            RT_simulate_input_message(port_id, message))
           /\ UNCHANGED << te_vars, cg_vars, pf_vars, fo_vars, sb_vars,
                           pm_vars, fl_vars, dr_vars, tp_vars >>
    \/ RT_start
           /\ UNCHANGED << te_vars, cg_vars, pf_vars, fo_vars, sb_vars,
                           pm_vars, fl_vars, dr_vars, tp_vars >>
    \/ (\E w \in Workers : TP_loop_387(w))
           /\ UNCHANGED << te_vars, cg_vars, pf_vars, fo_vars, sb_vars,
                           pm_vars, fl_vars, dr_vars >>
    \/ (\E w \in Workers : RT_route_350(w))
           /\ UNCHANGED << te_vars, cg_vars, pf_vars, fo_vars, sb_vars,
                           pm_vars, fl_vars, dr_vars, tp_vars >>
    \/ (\E w \in Workers : TP_loop_397(w))
           /\ UNCHANGED << te_vars, cg_vars, pf_vars, fo_vars, sb_vars,
                           pm_vars, fl_vars, dr_vars >>

SpecTopology == Init /\ [][NextTopology]_vars

\* the tempo set through MrConductor and through scenes
NextConductor ==
    \/ (\E bpm \in BpmInputs : MC_set_bpm(bpm))
           /\ UNCHANGED << pf_vars, rt_vars, fo_vars, sb_vars, pm_vars, fl_vars,
                           dr_vars, tp_vars >>
    \/ (\E bpm \in BpmInputs : MC_load_scene(bpm))
           /\ UNCHANGED << pf_vars, rt_vars, fo_vars, sb_vars, pm_vars, fl_vars,
                           dr_vars, tp_vars >>
    \/ CG_set_bpm_74
           /\ UNCHANGED << te_vars, pf_vars, rt_vars, fo_vars, sb_vars, pm_vars,
                           fl_vars, dr_vars, tp_vars >>
    \/ (\E d \in ClockTicks : CG_Tick(d))
           /\ UNCHANGED << te_vars, pf_vars, rt_vars, fo_vars, sb_vars, pm_vars,
                           fl_vars, dr_vars, tp_vars >>

SpecConductor == Init /\ [][NextConductor]_vars

\* the lifecycle with every loop task scheduled fairly: a loop task that
\* can take a step of _routing_loop or route_message eventually takes it
FairLoops ==
    LET others == << te_vars, cg_vars, pf_vars, fo_vars, sb_vars, pm_vars,
                     fl_vars, dr_vars, tp_vars >>
    IN  \A w \in Workers :
            /\ WF_vars(RT_loop_387(w) /\ UNCHANGED others)
            /\ WF_vars(RT_route_350(w) /\ UNCHANGED others)
            /\ WF_vars(RT_loop_397(w) /\ UNCHANGED others)

SpecIngest == Init /\ [][NextLifecycle]_vars /\ FairLoops

\* the clock generator stopped while it is playing
NextStop ==
    \/ (\E d \in ClockTicks : CG_Tick(d))
           /\ UNCHANGED << te_vars, pf_vars, rt_vars, fo_vars, sb_vars, pm_vars,
                           fl_vars, dr_vars, tp_vars >>
    \/ (\E port_id \in DeviceIds : CG_add_device(port_id))
           /\ UNCHANGED << te_vars, pf_vars, rt_vars, fo_vars, sb_vars, pm_vars,
                           fl_vars, dr_vars, tp_vars >>
    \/ CG_start
           /\ UNCHANGED << te_vars, pf_vars, rt_vars, fo_vars, sb_vars, pm_vars,
                           fl_vars, dr_vars, tp_vars >>
    \/ CG_start_playback_111
           /\ UNCHANGED << te_vars, pf_vars, rt_vars, fo_vars, sb_vars, pm_vars,
                           fl_vars, dr_vars, tp_vars >>
    \/ CG_start_playback_113
           /\ UNCHANGED << te_vars, pf_vars, rt_vars, fo_vars, sb_vars, pm_vars,
                           fl_vars, dr_vars, tp_vars >>
    \/ CG_start_playback_114
           /\ UNCHANGED << te_vars, pf_vars, rt_vars, fo_vars, sb_vars, pm_vars,
                           fl_vars, dr_vars, tp_vars >>
    \/ CG_start_playback_117
           /\ UNCHANGED << te_vars, pf_vars, rt_vars, fo_vars, sb_vars, pm_vars,
                           fl_vars, dr_vars, tp_vars >>
    \/ CG_stop_182
           /\ UNCHANGED << te_vars, pf_vars, rt_vars, fo_vars, sb_vars, pm_vars,
                           fl_vars, dr_vars, tp_vars >>
    \/ CG_stop_186
           /\ UNCHANGED << te_vars, pf_vars, rt_vars, fo_vars, sb_vars, pm_vars,
                           fl_vars, dr_vars, tp_vars >>
    \/ CG_stop_126
           /\ UNCHANGED << te_vars, pf_vars, rt_vars, fo_vars, sb_vars, pm_vars,
                           fl_vars, dr_vars, tp_vars >>
    \/ CG_stop_189
           /\ UNCHANGED << te_vars, pf_vars, rt_vars, fo_vars, sb_vars, pm_vars,
                           fl_vars, dr_vars, tp_vars >>
    \/ CG_loop_145
           /\ UNCHANGED << te_vars, pf_vars, rt_vars, fo_vars, sb_vars, pm_vars,
                           fl_vars, dr_vars, tp_vars >>
    \/ CG_loop_147
           /\ UNCHANGED << te_vars, pf_vars, rt_vars, fo_vars, sb_vars, pm_vars,
                           fl_vars, dr_vars, tp_vars >>
    \/ CG_loop_149
           /\ UNCHANGED << te_vars, pf_vars, rt_vars, fo_vars, sb_vars, pm_vars,
                           fl_vars, dr_vars, tp_vars >>
    \/ CG_pulse_137
           /\ UNCHANGED << te_vars, pf_vars, rt_vars, fo_vars, sb_vars, pm_vars,
                           fl_vars, dr_vars, tp_vars >>
    \/ CG_pulse_138
           /\ UNCHANGED << te_vars, pf_vars, rt_vars, fo_vars, sb_vars, pm_vars,
                           fl_vars, dr_vars, tp_vars >>
    \/ CG_pulse_139
           /\ UNCHANGED << te_vars, pf_vars, rt_vars, fo_vars, sb_vars, pm_vars,
                           fl_vars, dr_vars, tp_vars >>
    \/ CG_pulse_139w
           /\ UNCHANGED << te_vars, pf_vars, rt_vars, fo_vars, sb_vars, pm_vars,
                           fl_vars, dr_vars, tp_vars >>
    \/ CG_loop_153
           /\ UNCHANGED << te_vars, pf_vars, rt_vars, fo_vars, sb_vars, pm_vars,
                           fl_vars, dr_vars, tp_vars >>
    \/ CG_loop_157
           /\ UNCHANGED << te_vars, pf_vars, rt_vars, fo_vars, sb_vars, pm_vars,
                           fl_vars, dr_vars, tp_vars >>
    \/ CG_loop_158
           /\ UNCHANGED << te_vars, pf_vars, rt_vars, fo_vars, sb_vars, pm_vars,
                           fl_vars, dr_vars, tp_vars >>
    \/ CG_loop_161
           /\ UNCHANGED << te_vars, pf_vars, rt_vars, fo_vars, sb_vars, pm_vars,
                           fl_vars, dr_vars, tp_vars >>

SpecStop == Init /\ [][NextStop]_vars

(***************************************************************************)
(*                               CLAIMS                                    *)
(***************************************************************************)

\* C1: the tempo stays within [60,200] under every sequence of set_bpm
\* calls, and a set_bpm call with an argument outside [60,200] leaves the
\* tempo exactly as it was before the call.
C1_TempoBound ==
    /\ 60 <= te_bpm /\ te_bpm <= 200
    /\ (te_last.op = "set_bpm" /\ ~(60 <= te_last.arg /\ te_last.arg <= 200))
           => te_bpm = te_last.pre

\* C1 witness: set_bpm(250) has just been rejected at tempo 60.
C1_Witness ==
    te_last = TE_Last("set_bpm", 250, 60) /\ te_bpm = 60

\* C2: in the state right after start_playback returns, is_playing is true
\* and beat_position is 0.
C2_StartResetsBeat ==
    te_last.op = "start_playback" => (te_is_playing /\ te_beat_position = 0)

\* C3: while the engine stays stopped (from the return of stop_playback to
\* the next start_playback) no step changes beat_position.
C3_StopFreezesBeat ==
    [][(~te_is_playing /\ ~te_is_playing')
           => te_beat_position' = te_beat_position]_vars

\* C4: between the return of start_playback and the following stop_playback,
\* the beat_position an update cycle writes is never smaller than the one the
\* previous cycle wrote.
C4_BeatMonotonic ==
    [][(te_upd = "l144" /\ te_upd' = "l154" /\ te_is_playing
            /\ te_cycle_prev /= -1)
           => te_beat_position' >= te_cycle_prev]_vars

\* C5: a start_playback call that finds the generator stopped sends exactly
\* one Start message and returns with the pulse counter at 0; a call that
\* finds it playing sends nothing and leaves the pulse counter alone.
C5_TransportReset ==
    cg_ret.op = "start_playback" =>
        IF cg_ret.transition
        THEN cg_ret.sent = << 250 >> /\ cg_ret.count = 0
        ELSE cg_ret.sent = << >> /\ cg_ret.count = cg_ret.pre

\* C6: whenever no set_bpm call is in progress, clock_interval is
\* 60 / (24 * current_bpm), that is clock_interval * 24 * current_bpm = 60.
C6_PulseInterval ==
    cg_ctl = "idle" =>
        cg_clock_interval.n * 24 * cg_current_bpm = 60 * cg_clock_interval.d

\* C7: when a worker's routing of a message from source port P has ended
\* and no control call changed the ports or connections meanwhile, the
\* connections that forwarded the message, each once and to its own output
\* port, are exactly those from P that are enabled and all of whose filters
\* pass the message; what another connection's filters reject plays no
\* part.
C7_FilterAnd ==
    \A w \in Workers :
        (rt_wk[w] = "l397" /\ rt_wk_message[w] /= << >> /\ ~rt_mutated[w]) =>
            LET message == rt_wk_message[w][1][1]
                input_port == rt_wk_message[w][1][2]
                log == rt_log[w]
                Hits(k) == {j \in 1..Len(log) : log[j].idx = k}
            IN  /\ \A k \in 1..Len(rt_connections) :
                       LET conn == rt_connections[k]
                           due == /\ conn.input_port = input_port
                                  /\ conn.enabled
                                  /\ \A i \in 1..Len(conn.filters) :
                                         should_pass(conn.filters[i], message)
                       IN  /\ Cardinality(Hits(k)) = IF due THEN 1 ELSE 0
                           /\ \A j \in Hits(k) :
                                  log[j].output_port = conn.output_port
                /\ \A j \in 1..Len(log) : log[j].idx \in 1..Len(rt_connections)

\* C7 witness: two enabled connections from the source port; the first has
\* a filter that passes the message and one that rejects it and did not
\* forward, the second has no filter and forwarded.
C7_Witness ==
    /\ rt_wk[1] = "l397" /\ rt_wk_message[1] /= << >> /\ ~rt_mutated[1]
    /\ Len(rt_connections) = 2
    /\ \A k \in 1..2 : /\ rt_connections[k].input_port = rt_wk_message[1][1][2]
                       /\ rt_connections[k].enabled
    /\ Len(rt_connections[1].filters) = 2
    /\ should_pass(rt_connections[1].filters[1], rt_wk_message[1][1][1])
    /\ ~should_pass(rt_connections[1].filters[2], rt_wk_message[1][1][1])
    /\ rt_connections[2].filters = << >>
    /\ Len(rt_log[1]) = 1 /\ rt_log[1][1].idx = 2

\* C8: an enabled transform turns the note n of a note-on or note-off
\* message (0 <= n <= 127) into max(0, min(127, n + transpose)), which lies
\* within 0..127.
C8_TransposeClamp ==
    (/\ tf_result /= << >>
     /\ tf_transform.enabled
     /\ tf_message.message_type \in {NOTE_ON, NOTE_OFF}) =>
        LET sum == tf_message.data1 + tf_transform.transpose
            note == tf_result[1].data1
        IN  /\ note = (IF sum < 0 THEN 0 ELSE IF sum > 127 THEN 127 ELSE sum)
            /\ 0 <= note /\ note <= 127

\* C8 witness: note 60 transposed by -70 came out as note 0.
C8_Witness ==
    /\ tf_transform.enabled /\ tf_transform.transpose = -70
    /\ tf_message.message_type = NOTE_ON /\ tf_message.data1 = 60
    /\ tf_result /= << >> /\ tf_result[1].data1 = 0

\* C9: the connections of self.connections always have both endpoints in
\* the port table, also between the two steps of remove_port while the
\* worker runs; and when remove_port(p) returns true, p is no longer a
\* port, no connection has p as an endpoint, and the connections are those
\* the call found that do not touch p, unchanged and in their order.
C9_CascadingDelete ==
    /\ [](\A k \in 1..Len(rt_connections) :
              /\ rt_connections[k].input_port \in DOMAIN rt_ports
              /\ rt_connections[k].output_port \in DOMAIN rt_ports)
    /\ [][(rt_ctl = "l298" /\ rt_ctl' = "idle") =>
              /\ rt_ctl_port \notin DOMAIN rt_ports'
              /\ \A k \in 1..Len(rt_connections') :
                     /\ rt_connections'[k].input_port /= rt_ctl_port
                     /\ rt_connections'[k].output_port /= rt_ctl_port
              /\ rt_connections' =
                     SelectSeq(rt_before,
                               LAMBDA conn : /\ conn.input_port /= rt_ctl_port
                                             /\ conn.output_port /= rt_ctl_port)]_vars

\* C9 witness: remove_port has dropped one of two connections and kept the
\* other, the port is not deleted yet, and the worker is in the middle of
\* routing a message over the list it began with.
C9_Witness ==
    /\ rt_ctl = "l298"
    /\ Len(rt_before) = 2 /\ Len(rt_connections) = 1
    /\ rt_ctl_port \in DOMAIN rt_ports
    /\ rt_wk[1] = "l350" /\ ~rt_wk_same[1] /\ rt_wk_old[1] /= << >>

\* C10, as the code has it: to_bytes of a Note-On on channel 1 with note 60
\* and velocity 100 and no raw form is the three bytes 0x91, 0x3C, 0x64
\* (145, 60, 100), and to_bytes of a Start message with no raw form is the
\* single byte 0xFA (250).
C10_ByteEncoding ==
    (bt_bytes /= << >> /\ bt_message.raw_data = << >>) =>
        /\ bt_message = MIDIMessage(NOTE_ON, 1, 60, 100)
               => bt_bytes[1] = << 145, 60, 100 >>
        /\ bt_message.message_type = START => bt_bytes[1] = << 250 >>

\* C10 witness: the Note-On on channel 1, note 60, velocity 100 has been
\* encoded as 145, 60, 100.
C10_Witness ==
    /\ bt_message = MIDIMessage(NOTE_ON, 1, 60, 100)
    /\ bt_bytes = << << 145, 60, 100 >> >>

\* C10 as stated: the Note-On encodes to 0x91, 0x60, 0x64 (145, 96, 100)
\* and the Start message to 0xFA.
C10_AsStated ==
    (bt_bytes /= << >> /\ bt_message.raw_data = << >>) =>
        /\ bt_message = MIDIMessage(NOTE_ON, 1, 60, 100)
               => bt_bytes[1] = << 145, 96, 100 >>
        /\ bt_message.message_type = START => bt_bytes[1] = << 250 >>

\* C11: to_bytes of a message with no raw form is, for a kind below 0xF0,
\* the status byte kind | (channel & 0x0F) followed by data1 alone for
\* Program Change and Channel Aftertouch and by data1, data2 for every
\* other channel kind; for a kind of 0xF0 or more it is the one byte of the
\* kind, whatever the channel and data fields are.
C11_ByteShape ==
    (bt_bytes /= << >> /\ bt_message.raw_data = << >>) =>
        LET bytes == bt_bytes[1]
            kind == bt_message.message_type
            nibble == bt_message.channel - 16 * (bt_message.channel \div 16)
        IN  IF kind >= 240 THEN bytes = << kind >>
            ELSE IF kind \in {192, 208}
            THEN bytes = << kind + nibble, bt_message.data1 >>
            ELSE bytes = << kind + nibble, bt_message.data1, bt_message.data2 >>

\* C11 witness: a Program Change on channel 9 with program 60 has been
\* encoded as the two bytes 0xC9, 60.
C11_Witness ==
    /\ bt_message.message_type = PROGRAM_CHANGE /\ bt_message.channel = 9
    /\ bt_message.data1 = 60 /\ bt_message.raw_data = << >>
    /\ bt_bytes = << << 201, 60 >> >>

\* C12: messages_per_second changes only in an _update_statistics call made
\* when at least one second has passed since last_stats_update; that call
\* sets it to processed count / elapsed seconds, resets the counter to 0 and
\* moves last_stats_update to now; every other call leaves all three alone
C12_StatsWindow ==
    [][LET updating == \E w \in Workers :
                           rt_wk[w] = "l397" /\ rt_wk'[w] = "l387"
           elapsed == rt_time - rt_last_stats_update
       IN  IF updating /\ elapsed >= 1000
           THEN /\ rt_messages_per_second'.n * elapsed =
                       rt_total_messages_processed * 1000
                           * rt_messages_per_second'.d
                /\ rt_messages_per_second'.d /= 0
                /\ rt_total_messages_processed' = 0
                /\ rt_last_stats_update' = rt_time
           ELSE /\ rt_messages_per_second' = rt_messages_per_second
                /\ rt_last_stats_update' = rt_last_stats_update
                /\ updating =>
                       rt_total_messages_processed' =
                           rt_total_messages_processed]_vars

\* two messages were counted in a window of one second: 2.0 per second
C12_Witness ==
    /\ rt_messages_per_second = Frac(2000, 1000)
    /\ rt_total_messages_processed = 0
    /\ rt_last_stats_update = 1000

\* C13: the messages accepted by simulate_input_message are routed in the
\* order they were enqueued, so that no output port receives a delivery of
\* a message enqueued before one whose delivery it already has
C13_IngestionOrder ==
    [][\A w \in Workers :
           Len(rt_log'[w]) > Len(rt_log[w]) => rt_wk_seq[w] >= rt_delivered]_vars

\* C17: at most one background loop task of the router is alive at any
\* time, under every sequence of start() and stop() calls
C17_SingleWorker ==
    Cardinality({w \in Workers : rt_wk[w] /= "dead"}) <= 1

\* C18: when stop() has returned, the router's background task has ended
C18_Quiescence ==
    (rt_ctl = "idle" /\ ~rt_running) => \A w \in Workers : rt_wk[w] = "dead"

\* C16: for every message a connection forwards, every registered observer
\* is invoked exactly once with the forwarded message and the connection's
\* output port, in registration order, whether or not an observer raises
C16_ObserverNotification ==
    [][\A w \in Workers :
           (rt_wk[w] = "l362" /\ rt_wk'[w] = "l350") =>
               LET forward == rt_log[w][Len(rt_log[w])]
                   calls == rt_invoked[w]
                   registered(list) ==
                       {list[k] : k \in 1..Len(list)}
                   stayed == registered(rt_cb_start[w])
                                 \cap registered(rt_message_callbacks)
                   place(c) ==
                       CHOOSE k \in 1..Len(rt_message_callbacks) :
                           rt_message_callbacks[k] = c
               IN  /\ \A c \in stayed :
                          Cardinality({k \in 1..Len(calls) :
                                          calls[k].callback = c}) = 1
                   /\ \A k \in 1..Len(calls) :
                          /\ calls[k].message = forward.message
                          /\ calls[k].output_port = forward.output_port
                   /\ \A j, k \in 1..Len(calls) :
                          (/\ j < k
                           /\ calls[j].callback \in stayed
                           /\ calls[k].callback \in stayed)
                              => place(calls[j].callback)
                                     < place(calls[k].callback)]_vars

\* C19: no update cycle and no subscriber observes is_playing = true
\* together with the start_time of the previous playback: while
\* start_playback has set is_playing and not yet start_time, no cycle
\* computes beat_position or hands the state to the subscribers
C19_NonTornSnapshot ==
    (te_ctl = "l121" /\ ~te_was_playing) => te_upd \notin {"l144", "l154"}

\* C20: a set-tempo request never raises, whatever its numeric argument:
\* the clock generator's _update_clock_interval never divides by a zero
\* pulse rate, and once set_bpm has returned the pulse interval is a
\* positive time
C20_TempoNeverRaises ==
    /\ cg_ctl = "l74" => PULSES_PER_QUARTER_NOTE * cg_current_bpm /= 0
    /\ cg_ctl = "idle" => cg_clock_interval.n * cg_clock_interval.d > 0

\* C14: every message the clock generator emits is sent exactly once to
\* each device that is registered while it is emitted, whether or not a
\* send to another device fails, also when add_device / remove_device run
\* while the device list is iterated
C14_DeviceFanOut ==
    [][(fo_message /= 0 /\ fo_message' = 0) =>
           \A device \in Elements(fo_start) \cap Elements(fo_devices) :
               Cardinality({k \in 1..Len(fo_sends) :
                               fo_sends[k].to = device}) = 1]_vars

\* C15: on every update cycle each registered subscriber is invoked exactly
\* once, whether or not another subscriber raises
C15_SubscriberFanOut ==
    [][(sb_pc = "l159" /\ sb_pc' = "idle") =>
           \A name \in sb_start \cap Registered(sb_callbacks) :
               Cardinality({k \in 1..Len(sb_invoked) :
                               sb_invoked[k].callback = name}) = 1]_vars

\* C21: add_connection(i, o) appends one connection, and only when i and o
\* are registered ports, i an input port and o an output port; it never
\* changes the port table, and no other call makes the list longer
C21_ConnectionValidation ==
    [][Len(rt_connections') > Len(rt_connections) =>
           LET added == rt_connections'[Len(rt_connections')]
           IN  /\ rt_connections' = Append(rt_connections, added)
               /\ added.input_port \in DOMAIN rt_ports
               /\ added.output_port \in DOMAIN rt_ports
               /\ rt_ports[added.input_port].is_input
               /\ ~rt_ports[added.output_port].is_input
               /\ added = MIDIConnection(added.input_port, added.output_port)
               /\ rt_ports' = rt_ports]_vars

\* a connection was made from an input port to an output port
C21_Witness ==
    /\ rt_connections = << MIDIConnection("input_1", "output_1") >>
    /\ "input_2" \in DOMAIN rt_ports

\* C22: the Start and Stop messages the clock generator emits alternate,
\* beginning with Start; between calls the generator is playing exactly
\* when the last of them is a Start, so that each Playing-to-Stopped
\* transition emitted one Stop and a stop_playback while stopped none
C22_StopOnStopped ==
    LET IsTransport(e) == e.msg \in {MIDI_START, MIDI_STOP}
        transport == SelectSeq(cg_sent, IsTransport)
    IN  /\ \A k \in 1..Len(transport) :
               transport[k].msg =
                   IF k % 2 = 1 THEN MIDI_START ELSE MIDI_STOP
        /\ cg_ctl = "idle" => (cg_is_playing <=> Len(transport) % 2 = 1)

\* playback was started, stopped and started again
C22_Witness ==
    /\ cg_ctl = "idle"
    /\ Len(cg_sent) = 3
    /\ cg_sent[1].msg = MIDI_START
    /\ cg_sent[2].msg = MIDI_STOP
    /\ cg_sent[3].msg = MIDI_START

\* C23: in the messages sent to the devices every clock pulse lies after a
\* Start and before the next Stop
C23_PulsesInsidePlayback ==
    \A k \in 1..Len(cg_sent) :
        (cg_sent[k].msg = MIDI_CLOCK /\ cg_sent[k].to /= << >>) =>
            \E j \in 1..(k - 1) :
                /\ cg_sent[j].msg = MIDI_START
                /\ \A i \in (j + 1)..(k - 1) : cg_sent[i].msg /= MIDI_STOP

\* C24: set_bpm, accepted or rejected, changes neither is_playing nor
\* start_time nor beat_position, and an in-range value is accepted whether
\* the engine is stopped or playing; start_playback and stop_playback never
\* change bpm
C24_TransportOrthogonal ==
    [][/\ te_last'.op = "set_bpm" =>
              /\ te_is_playing' = te_is_playing
              /\ te_start_time' = te_start_time
              /\ te_beat_position' = te_beat_position
              /\ (60 <= te_last'.arg /\ te_last'.arg <= 200)
                     => te_bpm' = te_last'.arg
       /\ te_last'.op \in {"start_playback_120", "start_playback",
                           "stop_playback"} => te_bpm' = te_bpm]_vars

\* set_bpm(200) was accepted during playback, past the first beat
C24_Witness ==
    /\ te_last = TE_Last("set_bpm", 200, 120)
    /\ te_is_playing
    /\ te_bpm = 200
    /\ te_beat_position > 0

\* C25: the message a connection forwards is the result of its transforms
\* applied in the order they were attached, each to the output of the one
\* before; the message routed keeps its fields, so a parallel connection
\* starts from the same untransformed message
C25_TransformChain ==
    pm_results /= << >> =>
        \A k \in ChainConnections :
            LET ts == pm_transforms[k]
                m == pm_message
                RECURSIVE Chain(_)
                Chain(n) == IF n = 0 THEN m
                            ELSE transform(ts[n], Chain(n - 1))
            IN  /\ m = MIDIMessage(NOTE_ON, 0, 60, 100)
                /\ pm_results[1][k] = << Chain(Len(ts)) >>

\* +127 then -70 on one connection gives note 57, -70 then +127 on the
\* other gives note 127
C25_Witness ==
    /\ pm_results /= << >>
    /\ pm_transforms[1] = << MIDITransform(TRUE, << >>, 127, << >>),
                             MIDITransform(TRUE, << >>, -70, << >>) >>
    /\ pm_transforms[2] = << MIDITransform(TRUE, << >>, -70, << >>),
                             MIDITransform(TRUE, << >>, 127, << >>) >>
    /\ pm_results[1][1] = << MIDIMessage(NOTE_ON, 0, 57, 100) >>
    /\ pm_results[1][2] = << MIDIMessage(NOTE_ON, 0, 127, 100) >>

\* C26: every delivery attempt of a forwarded message increments exactly
\* one of the output port's two counters by one: message_count when the
\* send succeeds, error_count when it fails or is refused
C26_DeliveryAccounting ==
    [][\A w \in Workers :
           Len(rt_log'[w]) > Len(rt_log[w]) =>
               LET port_id == rt_log'[w][Len(rt_log'[w])].output_port
                   before == rt_ports[port_id]
                   after == rt_ports'[port_id]
               IN  \/ /\ after.message_count = before.message_count + 1
                      /\ after.error_count = before.error_count
                   \/ /\ after.message_count = before.message_count
                      /\ after.error_count = before.error_count + 1]_vars

\* C27: should_pass is true for every message when the filter is disabled
\* or has no dimension set; else it is true exactly when the channel is in
\* the channel set (if set), the kind is in the kind set (if set) and, for
\* note-on and note-off only, the velocity and the note lie in their ranges
\* (if set); the ranges never reject another kind of message
C27_FilterDimensions ==
    fl_result /= << >> =>
        LET f == fl_filter
            m == fl_message
            is_note == m.message_type \in {144, 128}
            channel_ok ==
                f.channel_filter = << >> \/ m.channel \in f.channel_filter[1]
            kind_ok ==
                f.message_type_filter = << >>
                    \/ m.message_type \in f.message_type_filter[1]
            velocity_ok ==
                f.velocity_range = << >> \/ ~is_note
                    \/ (f.velocity_range[1][1] <= m.data2
                            /\ m.data2 <= f.velocity_range[1][2])
            note_ok ==
                f.note_range = << >> \/ ~is_note
                    \/ (f.note_range[1][1] <= m.data1
                            /\ m.data1 <= f.note_range[1][2])
        IN  fl_result[1] =
                (~f.enabled
                    \/ (channel_ok /\ kind_ok /\ velocity_ok /\ note_ok))

\* a control change passes a filter whose velocity and note ranges both
\* exclude its data bytes
C27_Witness ==
    /\ fl_result = << TRUE >>
    /\ fl_filter = MIDIFilter(TRUE, << {0} >>, << {CONTROL_CHANGE} >>,
                              << << 64, 127 >> >>, << << 60, 84 >> >>)
    /\ fl_message = MIDIMessage(CONTROL_CHANGE, 0, 59, 63)

\* C28: an enabled transform puts out table[channel] when the input channel
\* is a key of the channel remap table and the input channel otherwise,
\* and, for a note message, curve[velocity] when a curve is configured and
\* the velocity is in [0,127] and the input velocity otherwise; a disabled
\* transform returns the message with every field unchanged
C28_TransformLookup ==
    tf_result /= << >> =>
        LET t == tf_transform
            m == tf_message
            out == tf_result[1]
            is_note == m.message_type \in {144, 128}
        IN  IF ~t.enabled THEN out = m
            ELSE /\ out.channel =
                        IF t.channel_map /= << >>
                           /\ m.channel \in DOMAIN t.channel_map[1]
                        THEN t.channel_map[1][m.channel]
                        ELSE m.channel
                 /\ out.data2 =
                        IF t.velocity_curve /= << >> /\ is_note
                           /\ 0 <= m.data2 /\ m.data2 <= 127
                        THEN t.velocity_curve[1][m.data2 + 1]
                        ELSE m.data2
                 /\ out.message_type = m.message_type

\* channel 0 is remapped to 5 and velocity 100 to the curve's 127
C28_Witness ==
    /\ tf_result /= << >>
    /\ tf_transform.enabled
    /\ tf_transform.channel_map /= << >>
    /\ tf_transform.velocity_curve /= << >>
    /\ tf_message = MIDIMessage(NOTE_ON, 0, 60, 100)
    /\ tf_result[1].channel = 5
    /\ tf_result[1].data2 = 127

\* C29: at a constant tempo with pulse interval I and a loop tick of d, the
\* n-th clock pulse after Start is emitted no later than start + n * I + d
C29_DriftFree ==
    dr_pulses >= 1 =>
        LET interval == ClockInterval(DriftBpm)
        IN  (dr_emitted - dr_tick) * interval.d
                <= 1000 * dr_pulses * interval.n

\* C30: a message is taken off the router's queue only when every
\* connection has been evaluated for the message taken before it: no loop
\* task dequeues while another is still inside route_message
C30_RunToCompletion ==
    [][\A w \in Workers :
           (rt_wk[w] = "l387" /\ rt_wk'[w] = "l350") =>
               \A v \in Workers \ {w} : rt_wk[v] \notin {"l350", "l362"}]_vars

\* C31: whenever neither start_playback nor _send_clock_pulse is in
\* progress, clock_pulse_count (the pulse_count of get_status) is the number
\* of clock pulses sent since the most recent Start message
C31_PulseCountAccurate ==
    LET starts == {k \in 1..Len(cg_sent) : cg_sent[k].msg = MIDI_START}
        last_start == CHOOSE k \in starts : \A j \in starts : j <= k
        pulses == {k \in 1..Len(cg_sent) :
                       cg_sent[k].msg = MIDI_CLOCK /\ k > last_start}
    IN  (cg_ctl = "idle" /\ cg_loop \notin {"l139", "l139w"} /\ starts /= {})
            => cg_clock_pulse_count = Cardinality(pulses)

\* C32: the heartbeat (0xFE) is sent only while the generator is Stopped:
\* no heartbeat is emitted while is_playing holds
C32_HeartbeatOnlyStopped ==
    [][(Len(cg_sent') > Len(cg_sent)
            /\ cg_sent'[Len(cg_sent')].msg = MIDI_ACTIVE_SENSING)
           => ~cg_is_playing]_vars

\* C33: while a port id stays registered, its message_count and error_count
\* never decrease
C33_PortCountersPersist ==
    [][\A port_id \in DOMAIN rt_ports \cap DOMAIN rt_ports' :
           /\ rt_ports'[port_id].message_count >= rt_ports[port_id].message_count
           /\ rt_ports'[port_id].error_count >= rt_ports[port_id].error_count]_vars

\* C34: between the router's control calls, every connection of the
\* connection list leads from a registered input port to a registered
\* output port
C34_Bipartite ==
    rt_ctl = "idle" =>
        \A k \in 1..Len(rt_connections) :
            LET conn == rt_connections[k]
            IN  /\ conn.input_port \in DOMAIN rt_ports
                /\ conn.output_port \in DOMAIN rt_ports
                /\ rt_ports[conn.input_port].is_input
                /\ ~rt_ports[conn.output_port].is_input

\* C35: for every ordered pair (i, o) the connection list holds at most one
\* connection i -> o
C35_ConnectionIdentity ==
    \A j \in 1..Len(rt_connections), k \in 1..Len(rt_connections) :
        (rt_connections[j].input_port = rt_connections[k].input_port
            /\ rt_connections[j].output_port = rt_connections[k].output_port)
        => j = k

\* C36: when route_message has gone through the connections for a message
\* of source i, every connection i -> o that was in the list when the routing
\* began, was not removed since, and passes the message, has received it
\* exactly once, whatever connections were removed or added meanwhile
C36_UnrelatedRoutesKept ==
    [][\A w \in Workers :
           (rt_wk[w] = "l350" /\ rt_wk'[w] = "l397") =>
               \A o \in TopologyOutputs :
                   LET i == rt_wk_message[w][1][2]
                       at_start == {k \in 1..Len(tp_start[w]) :
                                       /\ tp_start[w][k].input_port = i
                                       /\ tp_start[w][k].output_port = o}
                       now == {k \in 1..Len(rt_connections) :
                                  /\ rt_connections[k].input_port = i
                                  /\ rt_connections[k].output_port = o}
                       forwards == {j \in 1..Len(rt_log[w]) :
                                       rt_log[w][j].output_port = o}
                   IN  (/\ Cardinality(at_start) = 1
                        /\ Cardinality(now) = 1
                        /\ << i, o >> \notin tp_removed[w]
                        /\ \A k \in now :
                               process_message(rt_connections[k],
                                               rt_wk_message[w][1][1]) /= << >>)
                       => Cardinality(forwards) = 1]_vars

\* C37: between the calls of MrConductor.set_bpm and load_scene, the clock
\* generator's current_bpm equals the timing engine's bpm, and both are
\* within [60,200]
C37_TempoAgreement ==
    (cg_ctl = "idle" /\ te_ctl = "idle") =>
        /\ cg_current_bpm = te_bpm
        /\ BpmMin <= te_bpm /\ te_bpm <= BpmMax
        /\ BpmMin <= cg_current_bpm /\ cg_current_bpm <= BpmMax

C39_StopForcesStopped ==
    [][(cg_ctl = "s189" /\ cg_ctl' = "idle" /\ cg_ret.transition
            /\ cg_devices /= << >>) =>
           /\ ~cg_is_playing'
           /\ ~cg_running'
           /\ cg_sent' /= << >>
           /\ cg_sent'[Len(cg_sent')].msg = MIDI_STOP]_vars

=============================================================================
